---------------------------- MODULE Spec2Model ----------------------------
(***************************************************************************)
(* The image store of the LXD daemon (lxd/images.go), as a state machine.  *)
(*                                                                         *)
(* Two generations of the image handlers are in the tree: the pipeline     *)
(* one of src/lxd/images.go (build directory, getImgPostInfo,              *)
(* buildImageFromInfo, removeImgWorkdir) and the earlier inline one of     *)
(* src/unnamed/part_000 (everything inside imagesPost, with a cleanup      *)
(* closure).  The variable impl says which one the daemon was built from.  *)
(*                                                                         *)
(* A file is a sequence of bytes (0..255).  Errors are the values the code *)
(* returns (its message, or the name of the library error); SmartError     *)
(* turns them into the response kinds.                                     *)
(***************************************************************************)
EXTENDS Integers, Sequences, FiniteSets, TLC

VARIABLES
    impl,               \* "pipeline" (lxd/images.go) or "inline" (part_000)
    BackingFs,          \* d.BackingFs / shared.GetFilesystem(d.lxcpath)
    config,             \* the server config table: key -> value ("" = not set)
    images,             \* rows of table images
    images_properties,  \* rows of table images_properties
    images_aliases,     \* rows of table images_aliases
    nextId,             \* the next id of table images
    fs,                 \* the files under <var>/images and the temp dir: path -> node
    lvs,                \* the logical volumes of the volume group (by name)
    pools,              \* the thin pools of the volume group (by name)
    operations,         \* the operations registry: id -> operation
    last,               \* the last request served and its response
    procs,              \* the requests in flight that run step by step: process -> its locals
    lxc                 \* lxc copy: the locals of copyContainer, and the requests it has sent

vars == << impl, BackingFs, config, images, images_properties, images_aliases,
           nextId, fs, lvs, pools, operations, last, procs, lxc >>

-----------------------------------------------------------------------------
(* Bounds of the model *)

\* image rows ever inserted in one behaviour (ids 1..MaxImageId)
MaxImageId == 2
\* operations alive in the registry at once
MaxOps == 2

-----------------------------------------------------------------------------
(* Bytes, digests *)

RECURSIVE SHA256From(_, _, _)
\* A digest of the bytes in order: a polynomial over the bytes, kept in 23 bits
\* so that no product leaves the 32-bit integers.
\* This stands for sha256.New() fed by io.Copy and read by Sum(nil).
SHA256From(h, bytes, i) ==
    IF i > Len(bytes) THEN h
    ELSE SHA256From((h * 257 + bytes[i] + 1) % 8000009, bytes, i + 1)

SHA256(bytes) == SHA256From(7, bytes, 1)

\* header := make([]byte, 263); f.Read(header): the first 263 bytes, zero filled
HeaderByte(bytes, i) == IF i < Len(bytes) THEN bytes[i + 1] ELSE 0

HeaderSlice(bytes, from, to) == [ k \in 1..(to - from) |-> HeaderByte(bytes, from + k - 1) ]

-----------------------------------------------------------------------------
(* detectCompression *)

\* The switch of detectCompression over the 263 header bytes: the format, or
\* "" when no case matches.
DetectFormat(bytes) ==
    CASE HeaderSlice(bytes, 0, 2) = << 66, 90 >> -> "bz2"
      [] HeaderSlice(bytes, 0, 2) = << 31, 139 >> -> "gzip"
      [] HeaderSlice(bytes, 1, 5) = << 55, 122, 88, 90 >> /\ HeaderByte(bytes, 0) = 253 -> "xz"
      [] HeaderSlice(bytes, 1, 5) = << 55, 122, 88, 90 >> /\ HeaderByte(bytes, 0) # 253 -> "lzma"
      [] HeaderSlice(bytes, 257, 262) = << 117, 115, 116, 97, 114 >> -> "tar"
      [] OTHER -> ""

Extension(format) ==
    CASE format = "bz2" -> ".tar.bz2"
      [] format = "gzip" -> ".tar.gz"
      [] format = "xz" -> ".tar.xz"
      [] format = "lzma" -> ".tar.lzma"
      [] format = "tar" -> ".tar"
      [] OTHER -> ""

\* detectCompression as it would be if a read of fewer than 263 bytes were refused
detectCompressionFullRead(bytes) ==
    IF Len(bytes) < 263 \/ DetectFormat(bytes) = ""
    THEN [ format |-> "", ext |-> "", err |-> "Unsupported compression." ]
    ELSE [ format |-> DetectFormat(bytes), ext |-> Extension(DetectFormat(bytes)), err |-> "" ]

\* lxd/images.go: f.Read of an empty file returns io.EOF, which is returned.
detectCompression(bytes) ==
    IF Len(bytes) = 0 THEN [ format |-> "", ext |-> "", err |-> "EOF" ]
    ELSE IF DetectFormat(bytes) = ""
         THEN [ format |-> "", ext |-> "", err |-> "Unsupported compression." ]
         ELSE [ format |-> DetectFormat(bytes), ext |-> Extension(DetectFormat(bytes)), err |-> "" ]

\* part_000: the error of f.Read is overwritten by nothing and never looked at.
detectCompressionInline(bytes) ==
    IF DetectFormat(bytes) = ""
    THEN [ format |-> "", ext |-> "", err |-> "Unsupported compression." ]
    ELSE [ format |-> DetectFormat(bytes), ext |-> Extension(DetectFormat(bytes)), err |-> "" ]

-----------------------------------------------------------------------------
(* The archive: what tar finds in a file.  After the magic bytes comes one  *)
(* byte saying whether the archive holds metadata.yaml (1) or not, then the *)
(* properties of metadata.yaml as key, value pairs.                         *)

MagicLen(format) ==
    CASE format = "tar" -> 263
      [] format \in { "xz", "lzma" } -> 6
      [] OTHER -> 2

RECURSIVE PairsToMap(_, _)
\* yaml.Unmarshal into map[string]string: a later pair of a key replaces an earlier
PairsToMap(m, pairs) ==
    IF Len(pairs) < 2 THEN m
    ELSE PairsToMap([ k \in DOMAIN m \cup { pairs[1] } |-> IF k = pairs[1] THEN pairs[2] ELSE m[k] ],
                    SubSeq(pairs, 3, Len(pairs)))

NoProperties == [ k \in {} |-> 0 ]

\* r.Header["X-Lxd-Properties"]: the headers of the request, in their order; a
\* header is its bytes, key=value pairs (= is 61) joined by & (38)
PropHeaders(req) == IF "propHeaders" \in DOMAIN req THEN req.propHeaders ELSE << >>

RECURSIVE SplitQuery(_, _)
\* the segments of a query between the & signs: segment is the one being read
SplitQuery(query, segment) ==
    IF query = << >> THEN IF segment = << >> THEN << >> ELSE << segment >>
    ELSE IF Head(query) = 38
    THEN (IF segment = << >> THEN << >> ELSE << segment >>) \o SplitQuery(Tail(query), << >>)
    ELSE SplitQuery(Tail(query), Append(segment, Head(query)))

\* url.ParseQuery(ph): url.Values, the values of each key in the order of the
\* query (here the segments are one byte, =, one byte)
ParseQuery(ph) ==
    LET pairs == SelectSeq(SplitQuery(ph, << >>), LAMBDA seg : Len(seg) = 3 /\ seg[2] = 61)
        values(k) == LET of == SelectSeq(pairs, LAMBDA seg : seg[1] = k)
                     IN  [ i \in 1..Len(of) |-> of[i][3] ]
    IN  [ k \in { pairs[i][1] : i \in 1..Len(pairs) } |-> values(k) ]

\* the properties after a header of which the last value of each key is kept
LastValues(properties, ph) ==
    LET p == ParseQuery(ph) IN
    [ k \in DOMAIN properties \cup DOMAIN p |->
        IF k \in DOMAIN p THEN p[k][Len(p[k])] ELSE properties[k] ]

\* for pkey, pval := range p { info.Properties[pkey] = pval[0] }
FirstValues(properties, ph) ==
    LET p == ParseQuery(ph) IN
    [ k \in DOMAIN properties \cup DOMAIN p |->
        IF k \in DOMAIN p THEN p[k][1] ELSE properties[k] ]

RECURSIVE MergePropHeaders(_, _)
\* for _, ph := range propHeaders { ... }
MergePropHeaders(properties, propHeaders) ==
    IF propHeaders = << >> THEN properties
    ELSE MergePropHeaders(FirstValues(properties, Head(propHeaders)), Tail(propHeaders))

\* exec.Command("tar", "-O", args..., fname, "metadata.yaml") and yaml.Unmarshal
getImageMetadataOf(bytes, format) ==
    LET off == MagicLen(format) IN
    IF Len(bytes) <= off \/ bytes[off + 1] # 1
    THEN [ err |-> "Could not extract image metadata", Properties |-> NoProperties ]
    ELSE [ err |-> "", Properties |-> PairsToMap(NoProperties, SubSeq(bytes, off + 2, Len(bytes))) ]

\* lxd/images.go getImageMetadata
getImageMetadata(bytes) ==
    LET c == detectCompression(bytes) IN
    IF c.err # "" THEN [ err |-> c.err, Properties |-> NoProperties ]
    ELSE getImageMetadataOf(bytes, c.format)

\* part_000 getImageMetadata
getImageMetadataInline(bytes) ==
    LET c == detectCompressionInline(bytes) IN
    IF c.err # "" THEN [ err |-> c.err, Properties |-> NoProperties ]
    ELSE getImageMetadataOf(bytes, c.format)

\* tar -C path --numeric-owner args... tarball: fails on an archive it cannot read
TarExtracts(bytes, format) == Len(bytes) > MagicLen(format)

\* lxd/images.go untar
untar(bytes) ==
    LET c == detectCompression(bytes) IN
    IF c.err # "" THEN c.err
    ELSE IF TarExtracts(bytes, c.format) THEN "" ELSE "exit status 2"

-----------------------------------------------------------------------------
(* multipart/form-data: the boundary is the byte 255, followed by the name  *)
(* of the part (1: metadata, 2: rootfs) or by 0 at the end of the body.     *)

RECURSIVE IndexOfBoundary(_, _)
IndexOfBoundary(bytes, from) ==
    IF from > Len(bytes) THEN 0
    ELSE IF bytes[from] = 255 THEN from ELSE IndexOfBoundary(bytes, from + 1)

FormName(n) == CASE n = 1 -> "metadata" [] n = 2 -> "rootfs" [] OTHER -> ""

\* mr.NextPart() from offset from: the part (its form name, its bytes, where the
\* next boundary starts), or the error
NextPart(bytes, from) ==
    LET b == IndexOfBoundary(bytes, from)
        e == IndexOfBoundary(bytes, b + 2)
    IN  IF b = 0 \/ b + 1 > Len(bytes) \/ bytes[b + 1] = 0
        THEN [ err |-> "multipart: NextPart: EOF", name |-> "", data |-> << >>, next |-> 0 ]
        ELSE IF e = 0
        THEN [ err |-> "unexpected EOF", name |-> FormName(bytes[b + 1]), data |-> << >>, next |-> 0 ]
        ELSE [ err |-> "", name |-> FormName(bytes[b + 1]),
               data |-> SubSeq(bytes, b + 2, e - 1), next |-> e ]

MultipartBody(meta, rootfs) == << 255, 1 >> \o meta \o << 255, 2 >> \o rootfs \o << 255, 0 >>

-----------------------------------------------------------------------------
(* Files.  A path is its directory, the fingerprint in its name (0 for a    *)
(* temporary name) and the rest of its name; a node is a regular file with  *)
(* its bytes, a symlink with its target, a directory or a btrfs subvolume.  *)

Path(dir, fp, name) == [ dir |-> dir, fp |-> fp, name |-> name ]

\* shared.VarPath("images", fp + ext)
ImagesPath(fp, ext) == Path("images", fp, ext)
\* ioutil.TempDir(dirname, "lxd_build_") and the paths under it
BuildDir == Path("images", 0, "lxd_build_")
BuildPath(fp, name) == Path("lxd_build_", fp, name)

File(bytes) == [ kind |-> "file", data |-> bytes ]
Symlink(target) == [ kind |-> "symlink", data |-> << target >> ]
Dir == [ kind |-> "dir", data |-> << >> ]
Subvol == [ kind |-> "subvol", data |-> << >> ]
\* a directory on which the logical volume lv is mounted
Mount(lv) == [ kind |-> "mount", data |-> << lv >> ]

\* the logical volume lv is mounted somewhere
Mounted(f, lv) == \E q \in DOMAIN f : f[q] = Mount(lv)

PathExists(f, p) == p \in DOMAIN f

Create(f, p, node) == [ q \in DOMAIN f \cup { p } |-> IF q = p THEN node ELSE f[q] ]

Without(f, ps) == [ q \in DOMAIN f \ ps |-> f[q] ]

Children(f, d) == { q \in DOMAIN f : q.dir = d.name }

\* os.Remove: a file, a symlink or an empty directory
osRemove(f, p) ==
    IF ~PathExists(f, p) THEN [ fs |-> f, err |-> "no such file or directory" ]
    ELSE IF f[p].kind \in { "dir", "subvol" } /\ (f[p].kind = "subvol" \/ Children(f, p) # {})
    THEN [ fs |-> f, err |-> "directory not empty" ]
    ELSE IF f[p].kind = "mount" THEN [ fs |-> f, err |-> "device or resource busy" ]
    ELSE [ fs |-> Without(f, { p }), err |-> "" ]

\* os.Rename: the target is replaced, unless it is a directory that is not empty
\* or the two are not of the same sort
osRename(f, from, to) ==
    IF ~PathExists(f, from) THEN [ fs |-> f, err |-> "no such file or directory" ]
    ELSE IF PathExists(f, to) /\ ( f[to].kind \in { "dir", "subvol" } \/ f[from].kind \in { "dir", "subvol" } )
    THEN [ fs |-> f, err |-> "file exists" ]
    ELSE [ fs |-> Create(Without(f, { from }), to, f[from]), err |-> "" ]

\* os.RemoveAll of a directory: a subvolume or a busy mount point in it cannot
\* be unlinked, and then the directory stays as well; a mount point itself stays
osRemoveAll(f, d) ==
    LET stuck == { q \in Children(f, d) : f[q].kind \in { "subvol", "mount" } } IN
    IF PathExists(f, d) /\ f[d].kind = "mount" THEN f
    ELSE IF stuck # {} THEN Without(f, Children(f, d) \ stuck)
    ELSE Without(f, Children(f, d) \cup { d })

\* btrfsDeleteSubvol: btrfs subvolume delete; nothing happens to what is no subvolume
btrfsDeleteSubvol(f, p) ==
    IF PathExists(f, p) /\ f[p].kind = "subvol" THEN Without(f, { p }) ELSE f

\* btrfsMakeSubvol: btrfs subvolume create
btrfsMakeSubvol(f, p) ==
    IF PathExists(f, p) THEN [ fs |-> f, err |-> "exit status 1" ]
    ELSE [ fs |-> Create(f, p, Subvol), err |-> "" ]

-----------------------------------------------------------------------------
(* The server config and LVM *)

\* getServerConfigValue(d, key): the value, and whether it is set
getServerConfigValue(cfg, key) == [ value |-> cfg[key], isSet |-> cfg[key] # "" ]

\* shared.LVMCreateLV / LVMCreateThinLV: lvcreate -n name; a name is used once
LVMCreateLV(vols, name) ==
    IF name \in vols THEN [ lvs |-> vols, err |-> "exit status 5" ]
    ELSE [ lvs |-> vols \cup { name }, err |-> "" ]

\* shared.LVMRemoveLV: lvremove -f vg/name
LVMRemoveLV(vols, name) ==
    IF name \notin vols THEN [ lvs |-> vols, err |-> "exit status 5" ]
    ELSE [ lvs |-> vols \ { name }, err |-> "" ]

\* lvremove of a volume whose filesystem is in use fails
LVMRemoveLVInUse(f, vols, name) ==
    IF Mounted(f, name) THEN [ lvs |-> vols, err |-> "exit status 5" ]
    ELSE LVMRemoveLV(vols, name)

-----------------------------------------------------------------------------
(* POST /images of lxd/images.go.  A request is                             *)
(*   [ ctype, body, fingerprint (X-LXD-fingerprint, "" when absent: here 0),*)
(*     public (X-LXD-public) ].                                             *)
(* The JSON request that builds an image from a container is not part of    *)
(* the model: a body here is an archive or a multipart form.                *)

PostFile == BuildPath(0, "lxd_post_")
ImageTarf == BuildPath(0, "lxd_tar_1")
RootfsTarf == BuildPath(0, "lxd_tar_2")

NoInfo == [ Fingerprint |-> 0, Public |-> 0, Properties |-> NoProperties ]

\* the error of getImageMetadata, or the panic of the loop over the headers: a
\* metadata.yaml without properties leaves imageMeta.Properties nil, and the
\* assignment of a header pair to it panics
PropertiesErr(md, merged) ==
    IF md.err # "" THEN md.err
    ELSE IF md.Properties = NoProperties /\ merged # NoProperties
    THEN "panic: assignment to entry in nil map"
    ELSE ""

\* what getImgPostInfo returns, after its deferred os.Remove(post.Name())
PostInfoReturn(f, err, info) == [ fs |-> osRemove(f, PostFile).fs, err |-> err, info |-> info ]

\* the tail common to both branches: the X-LXD-fingerprint comparison, the
\* renames to the fingerprint names, getImageMetadata
PostInfoFinish(f, req, fp, meta, split) ==
    LET r1 == osRename(f, ImageTarf, BuildPath(fp, ""))
        r2 == IF split THEN osRename(r1.fs, RootfsTarf, BuildPath(fp, ".rootfs")) ELSE r1
        md == getImageMetadata(meta)
        info == [ Fingerprint |-> fp, Public |-> req.public,
                  Properties |-> MergePropHeaders(md.Properties, PropHeaders(req)) ]
    IN  IF req.fingerprint # 0 /\ fp # req.fingerprint
        THEN PostInfoReturn(f, "fingerprints don't match", [ NoInfo EXCEPT !.Fingerprint = fp ])
        ELSE IF r1.err # "" THEN PostInfoReturn(r1.fs, r1.err, info)
        ELSE IF r2.err # "" THEN PostInfoReturn(r2.fs, r2.err, info)
        ELSE PostInfoReturn(r2.fs, PropertiesErr(md, info.Properties), info)

\* a variant of MultipartDigest that copies only the metadata part through sha256
MetadataDigest(meta, rootfs) == SHA256(meta)

\* the digest of a multipart upload: both parts are copied through the one sha256
MultipartDigest(meta, rootfs) == SHA256(meta \o rootfs)

getImgPostInfo(f, req) ==
    LET f1 == Create(Create(f, PostFile, File(req.body)), ImageTarf, File(<< >>)) IN
    IF req.ctype = "multipart/form-data"
    THEN LET f2 == Create(f1, RootfsTarf, File(<< >>))
             p1 == NextPart(req.body, 1)
             f3 == Create(f2, ImageTarf, File(p1.data))
             p2 == NextPart(req.body, p1.next)
             f4 == Create(f3, RootfsTarf, File(p2.data))
         IN  IF p1.err = "multipart: NextPart: EOF" THEN PostInfoReturn(f2, p1.err, NoInfo)
             ELSE IF p1.name # "metadata" THEN PostInfoReturn(f2, "Invalid multipart image", NoInfo)
             ELSE IF p1.err # "" THEN PostInfoReturn(f3, p1.err, NoInfo)
             ELSE IF p2.err = "multipart: NextPart: EOF" THEN PostInfoReturn(f3, p2.err, NoInfo)
             ELSE IF p2.name # "rootfs" THEN PostInfoReturn(f3, "Invalid multipart image", NoInfo)
             ELSE IF p2.err # "" THEN PostInfoReturn(f4, p2.err, NoInfo)
             ELSE PostInfoFinish(f4, req, MultipartDigest(p1.data, p2.data), p1.data, TRUE)
    ELSE PostInfoFinish(Create(f1, ImageTarf, File(req.body)), req, SHA256(req.body), req.body, FALSE)

\* untarImage(imagefname, destpath): the archive, then its .rootfs beside it
untarImage(f, imagefname) ==
    LET rootfs == [ imagefname EXCEPT !.name = ".rootfs" ]
        e1 == untar(f[imagefname].data)
    IN  IF e1 # "" THEN e1
        ELSE IF PathExists(f, rootfs) THEN untar(f[rootfs].data) ELSE ""

TempLVMountPoint == BuildPath(0, "tmp_lv_mnt")

\* createImageLV: lvcreate, the symlink, mkfs.ext4, the mount point, mount,
\* untarImage, umount.  A step fails when w.faults names it; a command that
\* fails leaves nothing, and after a failed umount the volume stays mounted.
createImageLV(w, fp) ==
    LET lv == LVMCreateLV(w.lvs, fp)
        link == BuildPath(fp, ".lv")
        f1 == Create(w.fs, link, Symlink(fp))
        umounted == "umount" \notin w.faults
        f2 == Create(f1, TempLVMountPoint, IF umounted THEN Dir ELSE Mount(fp))
        w2 == [ w EXCEPT !.lvs = lv.lvs, !.fs = f2 ]
        untarErr == IF "untar" \in w.faults THEN "exit status 2"
                    ELSE untarImage(f2, BuildPath(fp, ""))
    IN  IF lv.err # "" \/ "lvcreate" \in w.faults
        THEN [ w |-> w, err |-> "Error Creating LVM LV for new image" ]
        ELSE IF PathExists(w.fs, link) \/ "symlink" \in w.faults
        THEN [ w |-> [ w EXCEPT !.lvs = lv.lvs ], err |-> "file exists" ]
        ELSE IF "mkfs" \in w.faults
        THEN [ w |-> [ w EXCEPT !.lvs = lv.lvs, !.fs = f1 ],
               err |-> "Error making filesystem on image LV" ]
        ELSE IF "mount" \in w.faults
        THEN [ w |-> [ w EXCEPT !.lvs = lv.lvs, !.fs = Create(f1, TempLVMountPoint, Dir) ],
               err |-> "Error mounting image LV" ]
        ELSE IF umounted THEN [ w |-> w2, err |-> untarErr ]
        ELSE IF untarErr = "" THEN [ w |-> w2, err |-> "exit status 32" ]
        ELSE [ w |-> w2, err |-> "Error unmounting during cleanup of error" ]

\* a variant of buildOtherFs that looks at the filesystem before the volume group
buildOtherFsBtrfsFirst(w, fp) ==
    LET vg == getServerConfigValue(w.config, "core.lvm_vg_name")
        subvol == BuildPath(fp, ".btrfs")
        mk == btrfsMakeSubvol(w.fs, subvol)
    IN  IF w.BackingFs = "btrfs"
        THEN IF "subvolume" \in w.faults THEN [ w |-> w, err |-> "exit status 1" ]
             ELSE IF mk.err # "" THEN [ w |-> w, err |-> mk.err ]
             ELSE [ w |-> [ w EXCEPT !.fs = mk.fs ], err |-> untarImage(mk.fs, BuildPath(fp, "")) ]
        ELSE IF vg.isSet THEN createImageLV(w, fp)
        ELSE [ w |-> w, err |-> "" ]

\* buildOtherFs: the .lv when a volume group is configured, else the .btrfs on btrfs
buildOtherFs(w, fp) ==
    LET vg == getServerConfigValue(w.config, "core.lvm_vg_name")
        subvol == BuildPath(fp, ".btrfs")
        mk == btrfsMakeSubvol(w.fs, subvol)
    IN  IF vg.isSet THEN createImageLV(w, fp)
        ELSE IF w.BackingFs = "btrfs"
        THEN IF "subvolume" \in w.faults THEN [ w |-> w, err |-> "exit status 1" ]
             ELSE IF mk.err # "" THEN [ w |-> w, err |-> mk.err ]
             ELSE [ w |-> [ w EXCEPT !.fs = mk.fs ], err |-> untarImage(mk.fs, BuildPath(fp, "")) ]
        ELSE [ w |-> w, err |-> "" ]

PropertyRows(id, properties) ==
    { [ image_id |-> id, key |-> k, value |-> properties[k] ] : k \in DOMAIN properties }

\* dbInsertImage: the row and its properties in one transaction; the unique
\* index on images.fingerprint fails the INSERT of a fingerprint that is stored
dbInsertImage(w, info) ==
    IF \E r \in w.images : r.fingerprint = info.Fingerprint
    THEN [ w |-> w, err |-> "UNIQUE constraint failed: images.fingerprint" ]
    ELSE IF "insert" \in w.faults THEN [ w |-> w, err |-> "database is locked" ]
    ELSE [ w |-> [ w EXCEPT !.images = @ \cup { [ id |-> w.nextId, fingerprint |-> info.Fingerprint,
                                                    public |-> info.Public ] },
                            !.images_properties = @ \cup PropertyRows(w.nextId, info.Properties),
                            !.nextId = @ + 1 ],
           err |-> "" ]

\* os.Rename, which fails and renames nothing when faults names the step
Rename(faults, step, f, from, to) ==
    IF step \in faults THEN [ fs |-> f, err |-> "rename: input/output error" ]
    ELSE osRename(f, from, to)

\* pullOutImagefiles: the renames out of the build directory
pullOutImagefiles(w, fp) ==
    LET rootfs == BuildPath(fp, ".rootfs")
        r1 == IF ~PathExists(w.fs, rootfs) THEN [ fs |-> w.fs, err |-> "" ]
              ELSE Rename(w.faults, "rename rootfs", w.fs, rootfs, ImagesPath(fp, ".rootfs"))
        r2 == Rename(w.faults, "rename", r1.fs, BuildPath(fp, ""), ImagesPath(fp, ""))
        lvsymlink == BuildPath(fp, ".lv")
        r3 == Rename(w.faults, "rename sidecar", r2.fs, lvsymlink, ImagesPath(fp, ".lv"))
        r4 == Rename(w.faults, "rename sidecar", r2.fs, BuildPath(fp, ".btrfs"), ImagesPath(fp, ".btrfs"))
    IN  IF r1.err # "" THEN [ w |-> [ w EXCEPT !.fs = r1.fs ], err |-> r1.err ]
        ELSE IF r2.err # "" THEN [ w |-> [ w EXCEPT !.fs = r2.fs ], err |-> r2.err ]
        ELSE IF PathExists(r2.fs, lvsymlink) THEN [ w |-> [ w EXCEPT !.fs = r3.fs ], err |-> r3.err ]
        ELSE IF w.BackingFs = "btrfs" THEN [ w |-> [ w EXCEPT !.fs = r4.fs ], err |-> r4.err ]
        ELSE [ w |-> [ w EXCEPT !.fs = r2.fs ], err |-> "" ]

\* buildImageFromInfo: buildOtherFs, dbInsertImage, pullOutImagefiles, in this order
buildImageFromInfo(w, info) ==
    LET b == buildOtherFs(w, info.Fingerprint)
        d == dbInsertImage(b.w, info)
        p == pullOutImagefiles(d.w, info.Fingerprint)
    IN  IF b.err # "" THEN b
        ELSE IF d.err # "" THEN d
        ELSE p

\* a variant of removeImgWorkdir that leaves the build directory in place
keepImgWorkdir(w) == w

\* a call of the cleanup, for w.log: busy tells that it was made on a volume
\* that was mounted, or on a directory that had a subvolume in it
Call(name, busy) == [ call |-> name, busy |-> busy ]

\* removeImgWorkdir: the LV of a .lv symlink left in the build directory, the
\* subvolumes on btrfs, then the directory
removeImgWorkdir(w) ==
    LET matches == { q \in Children(w.fs, BuildDir) : q.name = ".lv" }
        lvsymlink == CHOOSE q \in matches : TRUE
        vols == IF matches # {} THEN LVMRemoveLVInUse(w.fs, w.lvs, w.fs[lvsymlink].data[1]).lvs
                ELSE w.lvs
        subvols == { q \in Children(w.fs, BuildDir) : w.fs[q].kind = "subvol" }
        f1 == IF w.BackingFs = "btrfs" THEN Without(w.fs, subvols) ELSE w.fs
        calls == ( IF matches = {} THEN << >>
                   ELSE << Call("LVMRemoveLV", Mounted(w.fs, w.fs[lvsymlink].data[1])) >> )
                 \o ( IF w.BackingFs = "btrfs" /\ subvols # {}
                      THEN << Call("btrfsDeleteSubvol", FALSE) >> ELSE << >> )
                 \o << Call("os.RemoveAll", \E q \in Children(f1, BuildDir) : f1[q].kind = "subvol") >>
    IN  [ w EXCEPT !.lvs = vols, !.fs = osRemoveAll(f1, BuildDir), !.log = @ \o calls ]

-----------------------------------------------------------------------------
(* Responses *)

\* The kind of an error (the taxonomy of the error-handling design)
ErrorKind(err) ==
    CASE err = "fingerprints don't match" -> "HashMismatch"
      [] err = "Unsupported compression." -> "UnsupportedCompression"
      [] err \in { "Could not extract image metadata", "Could not read image metadata",
                   "exit status 2" } -> "ExtractionFailed"
      [] err \in { "UNIQUE constraint failed: images.fingerprint", "Image already exists." } -> "Conflict"
      [] err = "sql: no rows in result set" -> "NotFound"
      [] err \in { "Invalid multipart image", "multipart: NextPart: EOF", "unexpected EOF",
                   "Bad server config key" } -> "BadRequest"
      [] err \in { "Error Creating LVM LV for new image", "Error creating LVM thin pool",
                   "Failed to remove deleted image LV", "exit status 1" } -> "StorageBackendError"
      [] OTHER -> "Internal"

\* SmartError(err), InternalError(err), BadRequest(err): the response of an error
SmartError(err) == [ kind |-> ErrorKind(err), err |-> err, body |-> << >> ]

\* BadRequest(err)
BadRequest(err) == [ kind |-> "BadRequest", err |-> err, body |-> << >> ]

\* SyncResponse(true, metadata)
SyncResponse(metadata) == [ kind |-> "Success", err |-> "", body |-> metadata ]

EmptySyncResponse == SyncResponse(<< >>)

\* The state the handlers work on
World == [ BackingFs |-> BackingFs, config |-> config, images |-> images,
           images_properties |-> images_properties, images_aliases |-> images_aliases,
           nextId |-> nextId, fs |-> fs, lvs |-> lvs, pools |-> pools, faults |-> {},
           log |-> << >> ]

\* imagesPost of lxd/images.go: the world after it, and its response
imagesPostPipeline(w, req) ==
    LET w1 == [ w EXCEPT !.fs = Create(@, BuildDir, Dir) ]
        g == getImgPostInfo(w1.fs, req)
        b == buildImageFromInfo([ w1 EXCEPT !.fs = g.fs ], g.info)
    IN  IF g.err # ""
        THEN [ w |-> removeImgWorkdir([ w1 EXCEPT !.fs = g.fs ]), resp |-> SmartError(g.err) ]
        ELSE IF b.err # ""
        THEN [ w |-> removeImgWorkdir(b.w), resp |-> SmartError(b.err) ]
        ELSE [ w |-> removeImgWorkdir(b.w),
               resp |-> SyncResponse([ fingerprint |-> g.info.Fingerprint ]) ]

-----------------------------------------------------------------------------
(* POST /images of part_000: one function, with a cleanup closure *)

\* ioutil.TempFile(dirname, "lxd_image_")
TempImage == ImagesPath(0, "lxd_image_")
\* ioutil.TempDir("", "LXD_import")
ImportMountPoint == Path("tmp", 0, "LXD_import")

WithSuffix(p, suffix) == [ p EXCEPT !.name = @ \o suffix ]

\* untarImage of part_000: detectCompression, tar, then metadata.yaml is read
untarImageInline(bytes) ==
    LET c == detectCompressionInline(bytes) IN
    IF c.err # "" THEN c.err
    ELSE IF ~TarExtracts(bytes, c.format) THEN "exit status 2"
    ELSE IF getImageMetadataOf(bytes, c.format).err # "" THEN "Could not read image metadata"
    ELSE ""

\* the closure cleanup(err, fname); vgnameIsSet is the value read when the
\* request started.  The errors of its LVM branch go to a variable of that
\* branch and are lost.
cleanup(w, vgnameIsSet, err, fname) ==
    LET lvsymlink == WithSuffix(fname, ".lvm")
        isLink == PathExists(w.fs, lvsymlink) /\ w.fs[lvsymlink].kind = "symlink"
        vols == IF isLink THEN LVMRemoveLVInUse(w.fs, w.lvs, w.fs[lvsymlink].data[1]).lvs ELSE w.lvs
        f1 == IF vgnameIsSet THEN osRemove(w.fs, lvsymlink).fs
              ELSE IF w.BackingFs = "btrfs" THEN btrfsDeleteSubvol(w.fs, WithSuffix(fname, ".btrfs"))
              ELSE w.fs
        rem == osRemove(f1, fname)
        calls == IF vgnameIsSet
                 THEN << Call("LVMRemoveLV", isLink /\ Mounted(w.fs, w.fs[lvsymlink].data[1])) >>
                 ELSE IF w.BackingFs = "btrfs" /\ PathExists(w.fs, WithSuffix(fname, ".btrfs"))
                 THEN << Call("btrfsDeleteSubvol", FALSE) >>
                 ELSE << >>
        w2 == [ w EXCEPT !.lvs = IF vgnameIsSet THEN vols ELSE @, !.fs = rem.fs,
                         !.log = @ \o calls ]
    IN  IF rem.err # "" THEN [ w |-> w2, resp |-> SmartError("Could not process image") ]
        ELSE [ w |-> w2, resp |-> SmartError(err) ]

\* shared.LVMCreateDefaultThinPool(vgname): lvcreate of the pool LXDPool
LVMCreateDefaultThinPool(ps) ==
    IF "LXDPool" \in ps THEN [ pools |-> ps, err |-> "exit status 5" ]
    ELSE [ pools |-> ps \cup { "LXDPool" }, err |-> "" ]

\* the rows of the header pairs in imagesPost of part_000: one INSERT for each
\* key of each header, with pval[0]
HeaderRows(id, propHeaders) ==
    UNION { PropertyRows(id, FirstValues(NoProperties, propHeaders[i])) : i \in 1..Len(propHeaders) }

\* the insert of the row at the end of imagesPost of part_000: no property of
\* metadata.yaml is stored, the pairs of the X-LXD-properties headers are
InsertImageInline(w, fp, public, propHeaders) ==
    IF \E r \in w.images : r.fingerprint = fp
    THEN [ w |-> w, err |-> "UNIQUE constraint failed: images.fingerprint" ]
    ELSE IF "insert" \in w.faults THEN [ w |-> w, err |-> "database is locked" ]
    ELSE [ w |-> [ w EXCEPT !.images = @ \cup { [ id |-> w.nextId, fingerprint |-> fp, public |-> public ] },
                            !.images_properties = @ \cup HeaderRows(w.nextId, propHeaders),
                            !.nextId = @ + 1 ],
           err |-> "" ]

\* the LVM branch of imagesPost of part_000, after the rename to imagefname
imagesPostInlineLV(w, fp, imagefname) ==
    LET pool == getServerConfigValue(w.config, "core.lvm_thinpool_name")
        mk == LVMCreateDefaultThinPool(w.pools)
        w1 == IF pool.isSet THEN w
              ELSE [ w EXCEPT !.pools = mk.pools, !.config["core.lvm_thinpool_name"] = "LXDPool" ]
        poolname == w1.config["core.lvm_thinpool_name"]
        lv == IF poolname \in w1.pools THEN LVMCreateLV(w1.lvs, fp)
              ELSE [ lvs |-> w1.lvs, err |-> "exit status 5" ]
        w2 == [ w1 EXCEPT !.lvs = lv.lvs ]
        link == WithSuffix(imagefname, ".lvm")
        w3 == [ w2 EXCEPT !.fs = Create(Create(@, link, Symlink(fp)), ImportMountPoint, Mount(fp)) ]
        un == IF "untar" \in w.faults THEN "exit status 2"
              ELSE IF ~PathExists(w.fs, imagefname) THEN "no such file or directory"
              ELSE untarImageInline(w.fs[imagefname].data)
        \* unmountLV, then removeTempMountPoint (after a failed umount of an
        \* unpacked image it is not called; after a failed unpack it fails)
        umounted == "umount" \notin w.faults
        w4 == IF umounted THEN [ w3 EXCEPT !.fs = Without(@, { ImportMountPoint }) ]
              ELSE [ w3 EXCEPT !.fs = osRemoveAll(@, ImportMountPoint) ]
        w5 == [ w4 EXCEPT !.fs = osRemove(@, imagefname).fs ]
    IN  IF ~pool.isSet /\ mk.err # ""
        THEN [ w |-> w, err |-> "Error creating LVM thin pool" ]
        ELSE IF lv.err # "" \/ "lvcreate" \in w.faults
        THEN [ w |-> w1, err |-> "Error Creating LVM LV for new image" ]
        ELSE IF PathExists(w2.fs, link) \/ "symlink" \in w.faults
        THEN [ w |-> w2, err |-> "file exists" ]
        ELSE IF "mkfs" \in w.faults
        THEN [ w |-> [ w2 EXCEPT !.fs = Create(@, link, Symlink(fp)) ],
               err |-> "Error making filesystem on image LV" ]
        ELSE IF "mount" \in w.faults
        THEN [ w |-> [ w2 EXCEPT !.fs = Create(@, link, Symlink(fp)) ],
               err |-> "Error mounting image LV" ]
        ELSE IF un # "" /\ umounted THEN [ w |-> w4, err |-> un ]
        ELSE IF un # "" THEN [ w |-> w4, err |-> "Error removing temp mount point during cleanup of error" ]
        ELSE [ w |-> w5, err |-> "" ]

\* the unpacked store of imagesPost of part_000, after the rename to imagefname:
\* the LV, the subvolume, or only the metadata of the archive
buildStoreInline(w, vgnameIsSet, fp, imagefname) ==
    LET subvol == btrfsMakeSubvol(w.fs, WithSuffix(imagefname, ".btrfs")) IN
    IF vgnameIsSet THEN imagesPostInlineLV(w, fp, imagefname)
    ELSE IF w.BackingFs = "btrfs"
    THEN IF "subvolume" \in w.faults THEN [ w |-> w, err |-> "exit status 1" ]
         ELSE IF subvol.err # "" THEN [ w |-> w, err |-> subvol.err ]
         ELSE IF ~PathExists(w.fs, imagefname)
         THEN [ w |-> [ w EXCEPT !.fs = subvol.fs ], err |-> "no such file or directory" ]
         ELSE [ w |-> [ w EXCEPT !.fs = subvol.fs ], err |-> untarImageInline(w.fs[imagefname].data) ]
    ELSE IF ~PathExists(w.fs, imagefname) THEN [ w |-> w, err |-> "no such file or directory" ]
    ELSE [ w |-> w, err |-> getImageMetadataInline(w.fs[imagefname].data).err ]

\* imagesPost of part_000: the world after it, and its response
imagesPostInline(w, req) ==
    LET vg == getServerConfigValue(w.config, "core.lvm_vg_name")
        fname == TempImage
        w1 == [ w EXCEPT !.fs = Create(@, fname, File(req.body)) ]
        fp == SHA256(req.body)
        imagefname == ImagesPath(fp, "")
        mv == Rename(w.faults, "rename", w1.fs, fname, imagefname)
        w2 == [ w1 EXCEPT !.fs = mv.fs ]
        store == buildStoreInline(w2, vg.isSet, fp, imagefname)
        ins == InsertImageInline(store.w, fp, req.public, PropHeaders(req))
    IN  IF req.fingerprint # 0 /\ fp # req.fingerprint
        THEN cleanup(w1, vg.isSet, "fingerprints don't match", fname)
        ELSE IF PathExists(w1.fs, imagefname)
        THEN cleanup(w1, vg.isSet, "Image already exists.", fname)
        ELSE IF mv.err # "" THEN cleanup(w2, vg.isSet, mv.err, fname)
        ELSE IF store.err # "" THEN cleanup(store.w, vg.isSet, store.err, imagefname)
        ELSE IF ins.err # "" THEN cleanup(store.w, vg.isSet, ins.err, imagefname)
        ELSE [ w |-> ins.w, resp |-> SyncResponse([ fingerprint |-> fp ]) ]

-----------------------------------------------------------------------------
(* The tables *)

NoImage == [ id |-> 0, fingerprint |-> 0, public |-> 0 ]

\* dbImageGet(db, fingerprint, public): the row, public = 1 only when public is asked
dbImageGet(w, fingerprint, public) ==
    LET rows == { r \in w.images : r.fingerprint = fingerprint /\ (public => r.public = 1) } IN
    IF rows = {} THEN [ err |-> "sql: no rows in result set", row |-> NoImage ]
    ELSE [ err |-> "", row |-> CHOOSE r \in rows : TRUE ]

\* dbAliasGet(db, name)
dbAliasGet(w, name) ==
    IF \E a \in w.images_aliases : a.name = name THEN "" ELSE "sql: no rows in result set"

\* a variant of dbAddAlias on a table with no unique index on the name
dbAddAliasNoIndex(w, name, imageId, description) ==
    [ w |-> [ w EXCEPT !.images_aliases =
                  @ \cup { [ name |-> name, image_id |-> imageId, description |-> description ] } ],
      err |-> "" ]

\* dbAddAlias(db, name, imageId, description)
dbAddAlias(w, name, imageId, description) ==
    IF \E a \in w.images_aliases : a.name = name
    THEN [ w |-> w, err |-> "UNIQUE constraint failed: images_aliases.name" ]
    ELSE [ w |-> [ w EXCEPT !.images_aliases =
                       @ \cup { [ name |-> name, image_id |-> imageId, description |-> description ] } ],
           err |-> "" ]

\* DELETE FROM images_aliases WHERE image_id=?
DeleteAliasesOfImage(w, id) ==
    [ w EXCEPT !.images_aliases = { a \in @ : a.image_id # id } ]

\* "DELETE FROM images_properties WHERE image_id?": the statement does not
\* parse (no operator after image_id), tx.Exec returns the error, which is
\* dropped, and no row is deleted
DeletePropertiesOfImageInDelete(w, id) == w

\* DELETE FROM images_properties WHERE image_id=? (imagePut)
DeletePropertiesOfImage(w, id) ==
    [ w EXCEPT !.images_properties = { p \in @ : p.image_id # id } ]

\* DELETE FROM images WHERE id=?
DeleteImageRow(w, id) == [ w EXCEPT !.images = { r \in @ : r.id # id } ]

-----------------------------------------------------------------------------
(* DELETE /images/{fingerprint} *)

\* os.Remove, which fails and removes nothing when faults names the step
Remove(faults, step, f, p) ==
    IF step \in faults THEN [ fs |-> f, err |-> "remove: input/output error" ]
    ELSE osRemove(f, p)

\* imageDelete of lxd/images.go
imageDeletePipeline(w, fingerprint) ==
    LET g == dbImageGet(w, fingerprint, FALSE)
        fp == g.row.fingerprint
        fname == ImagesPath(fp, "")
        f1 == Remove(w.faults, "remove", w.fs, fname).fs
        fmetaname == ImagesPath(fp, ".rootfs")
        f2 == IF PathExists(f1, fmetaname) THEN Remove(w.faults, "remove rootfs", f1, fmetaname).fs
              ELSE f1
        vg == getServerConfigValue(w.config, "core.lvm_vg_name")
        lv == IF "lvremove" \in w.faults THEN [ lvs |-> w.lvs, err |-> "exit status 5" ]
              ELSE LVMRemoveLVInUse(w.fs, w.lvs, fp)
        ln == Remove(w.faults, "remove symlink", f2, ImagesPath(fp, ".lv"))
        w2 == [ w EXCEPT !.fs = f2 ]
        w3 == IF vg.isSet THEN [ w2 EXCEPT !.lvs = lv.lvs, !.fs = ln.fs ]
              ELSE IF w.BackingFs = "btrfs" /\ "subvolume delete" \notin w.faults
              THEN [ w2 EXCEPT !.fs = btrfsDeleteSubvol(@, ImagesPath(fp, ".btrfs")) ]
              ELSE w2
        w4 == DeleteImageRow(DeletePropertiesOfImageInDelete(DeleteAliasesOfImage(w3, g.row.id),
                                                            g.row.id), g.row.id)
    IN  IF g.err # "" THEN [ w |-> w, resp |-> SmartError(g.err) ]
        ELSE IF vg.isSet /\ lv.err # ""
        THEN [ w |-> w2, resp |-> SmartError("Failed to remove deleted image LV") ]
        ELSE IF vg.isSet /\ ln.err # ""
        THEN [ w |-> [ w2 EXCEPT !.lvs = lv.lvs ],
               resp |-> SmartError("Failed to remove symlink to deleted image LV") ]
        ELSE [ w |-> w4, resp |-> EmptySyncResponse ]

\* imageDelete of part_000: no .rootfs, and the symlink is named .lvm
imageDeleteInline(w, fingerprint) ==
    LET g == dbImageGet(w, fingerprint, FALSE)
        fp == g.row.fingerprint
        fname == ImagesPath(fp, "")
        f2 == IF PathExists(w.fs, fname) THEN Remove(w.faults, "remove", w.fs, fname).fs ELSE w.fs
        vg == getServerConfigValue(w.config, "core.lvm_vg_name")
        lv == IF "lvremove" \in w.faults THEN [ lvs |-> w.lvs, err |-> "exit status 5" ]
              ELSE LVMRemoveLVInUse(w.fs, w.lvs, fp)
        ln == Remove(w.faults, "remove symlink", f2, ImagesPath(fp, ".lvm"))
        w2 == [ w EXCEPT !.fs = f2 ]
        w3 == IF vg.isSet THEN [ w2 EXCEPT !.lvs = lv.lvs, !.fs = ln.fs ]
              ELSE IF w.BackingFs = "btrfs" /\ "subvolume delete" \notin w.faults
              THEN [ w2 EXCEPT !.fs = btrfsDeleteSubvol(@, ImagesPath(fp, ".btrfs")) ]
              ELSE w2
        w4 == DeleteImageRow(DeletePropertiesOfImageInDelete(DeleteAliasesOfImage(w3, g.row.id),
                                                            g.row.id), g.row.id)
    IN  IF g.err # "" THEN [ w |-> w, resp |-> SmartError(g.err) ]
        ELSE IF vg.isSet /\ lv.err # ""
        THEN [ w |-> w2, resp |-> SmartError("Failed to remove deleted image LV") ]
        ELSE IF vg.isSet /\ ln.err # ""
        THEN [ w |-> [ w2 EXCEPT !.lvs = lv.lvs ],
               resp |-> SmartError("Failed to remove symlink to deleted image LV") ]
        ELSE [ w |-> w4, resp |-> EmptySyncResponse ]

-----------------------------------------------------------------------------
(* Reading and changing an image *)

\* a variant of imagePut that inserts the properties without the DELETE
imagePutNoDelete(w, fingerprint, properties) ==
    LET rows == { r \in w.images : r.fingerprint = fingerprint }
        id == (CHOOSE r \in rows : TRUE).id
    IN  IF rows = {}
        THEN [ w |-> w, resp |-> [ kind |-> "NotFound", err |-> "sql: no rows in result set", body |-> << >> ] ]
        ELSE [ w |-> [ w EXCEPT !.images_properties =
                           @ \cup { [ image_id |-> id, key |-> k, value |-> properties[k] ] :
                                        k \in DOMAIN properties } ],
               resp |-> [ kind |-> "Success", err |-> "", body |-> << >> ] ]

\* imagePut: the properties of the image are deleted and those of the request
\* inserted, in one transaction
imagePut(w, fingerprint, properties) ==
    LET g == dbImageGet(w, fingerprint, FALSE)
        w2 == [ DeletePropertiesOfImage(w, g.row.id)
                    EXCEPT !.images_properties = @ \cup PropertyRows(g.row.id, properties) ]
    IN  IF g.err # "" THEN [ w |-> w, resp |-> SmartError(g.err) ]
        ELSE [ w |-> w2, resp |-> EmptySyncResponse ]

\* the map doImageGet builds from the rows of images_properties
PropertiesOfImage(w, id) ==
    LET rows == { p \in w.images_properties : p.image_id = id } IN
    [ k \in { p.key : p \in rows } |-> (CHOOSE p \in rows : p.key = k).value ]

\* the aliases doImageGet builds from the rows of images_aliases: the
\* description is read from column 0, the name
AliasesOfImage(w, id) ==
    { [ Name |-> a.name, Description |-> a.name ] : a \in { x \in w.images_aliases : x.image_id = id } }

\* doImageGet(d, fingerprint, public)
doImageGet(w, fingerprint, public) ==
    LET g == dbImageGet(w, fingerprint, public) IN
    IF g.err # "" THEN [ err |-> g.err, info |-> << >> ]
    ELSE [ err |-> "",
           info |-> [ Fingerprint |-> g.row.fingerprint, Public |-> g.row.public,
                      Properties |-> PropertiesOfImage(w, g.row.id),
                      Aliases |-> AliasesOfImage(w, g.row.id) ] ]

\* doImagesGet(d, recursion, public): the URLs, or the records
doImagesGet(w, recursion, public) ==
    LET results == { r.fingerprint : r \in { x \in w.images : public => x.public = 1 } } IN
    IF ~recursion THEN { << "1.0", "images", name >> : name \in results }
    ELSE { doImageGet(w, name, public).info : name \in { n \in results : doImageGet(w, n, public).err = "" } }

-----------------------------------------------------------------------------
(* The operations registry and the secrets *)

\* a variant of ScanImageResource whose format reads the version only
ScanImageVersion(url) == [ count |-> IF Len(url) >= 1 THEN 1 ELSE 0, imgFingerprint |-> 0 ]

\* what Sscanf(toScan, " %s images %s", &imgVersion, &imgFingerprint) reads
\* from a resource, given as its segments between the slashes: the count, and
\* the fingerprint
ScanImageResource(url) ==
    IF Len(url) >= 3 /\ url[2] = "images" THEN [ count |-> 2, imgFingerprint |-> url[3] ]
    ELSE [ count |-> IF Len(url) >= 1 THEN 1 ELSE 0, imgFingerprint |-> 0 ]

\* a variant of imageValidSecret that takes the secret of an operation on any image
imageValidSecretAnyImage(ops, fingerprint, secret) ==
    \E id \in DOMAIN ops :
        /\ "images" \in DOMAIN ops[id].Resources
        /\ "secret" \in DOMAIN ops[id].Metadata
        /\ ops[id].Metadata["secret"] = secret

\* imageValidSecret(fingerprint, secret)
imageValidSecret(ops, fingerprint, secret) ==
    \E id \in DOMAIN ops :
        LET op == ops[id] IN
        /\ "images" \in DOMAIN op.Resources
        /\ \E img \in op.Resources["images"] :
               /\ ScanImageResource(img).count = 2
               /\ ScanImageResource(img).imgFingerprint = fingerprint
        /\ "secret" \in DOMAIN op.Metadata
        /\ op.Metadata["secret"] = secret

\* the operation that rendering the asyncResponse of imageSecret registers: the
\* resources are stored as URLs
SecretOperation(fingerprint, secret) ==
    [ Resources |-> [ k \in { "images" } |-> { << "1.0", "images", fingerprint >> } ],
      Metadata |-> [ k \in { "secret" } |-> secret ] ]

FreeOperationId(ops) == CHOOSE id \in 1..(Cardinality(DOMAIN ops) + 1) : id \notin DOMAIN ops

\* imageSecret: the row must exist; shared.RandomCryptoString gave secret
imageSecret(w, ops, fingerprint, secret) ==
    LET g == dbImageGet(w, fingerprint, FALSE)
        id == FreeOperationId(ops)
    IN  IF g.err # "" THEN [ ops |-> ops, resp |-> SmartError(g.err) ]
        ELSE [ ops |-> [ i \in DOMAIN ops \cup { id } |->
                             IF i = id THEN SecretOperation(fingerprint, secret) ELSE ops[i] ],
               resp |-> [ kind |-> "Success", err |-> "",
                          body |-> [ operation |-> id, secret |-> secret ] ] ]

\* a variant of PublicOnly that never restricts the lookup to public images
PublicOnlyUnchecked(ops, trusted, fingerprint, secret) == FALSE

\* public := !d.isTrustedClient(r), lowered by a valid secret
PublicOnly(ops, trusted, fingerprint, secret) ==
    IF ~trusted /\ imageValidSecret(ops, fingerprint, secret) THEN FALSE ELSE ~trusted

\* imageGet
imageGet(w, ops, trusted, fingerprint, secret) ==
    LET g == doImageGet(w, fingerprint, PublicOnly(ops, trusted, fingerprint, secret)) IN
    IF g.err # "" THEN SmartError(g.err) ELSE SyncResponse(g.info)

\* imagesGet
imagesGet(w, trusted, recursion) == SyncResponse(doImagesGet(w, recursion, ~trusted))

\* a variant of imageExport that never looks for <fingerprint>.rootfs
imageExportOneFile(w, ops, trusted, fingerprint, secret) ==
    LET g == dbImageGet(w, fingerprint, PublicOnly(ops, trusted, fingerprint, secret))
        imagePath == ImagesPath(g.row.fingerprint, "")
    IN  IF g.err # "" THEN SmartError(g.err)
        ELSE SyncResponse(<< [ identifier |-> << fingerprint, "" >>, path |-> imagePath ] >>)

\* imageExport of lxd/images.go: two files when <fingerprint>.rootfs exists.  The
\* stored filename is empty (no X-LXD-filename), so the name is the
\* fingerprint and the extension detectCompression finds.
imageExportPipeline(w, ops, trusted, fingerprint, secret) ==
    LET g == dbImageGet(w, fingerprint, PublicOnly(ops, trusted, fingerprint, secret))
        imagePath == ImagesPath(g.row.fingerprint, "")
        rootfsPath == ImagesPath(g.row.fingerprint, ".rootfs")
        ext == IF PathExists(w.fs, imagePath) /\ w.fs[imagePath].kind = "file"
               THEN detectCompression(w.fs[imagePath].data).ext ELSE ""
        filename == << fingerprint, ext >>
    IN  IF g.err # "" THEN SmartError(g.err)
        ELSE IF PathExists(w.fs, rootfsPath)
        THEN SyncResponse(<< [ identifier |-> << "metadata" >>, path |-> imagePath ],
                             [ identifier |-> << "rootfs" >>, path |-> rootfsPath ] >>)
        ELSE SyncResponse(<< [ identifier |-> filename, path |-> imagePath ] >>)

\* imageExport of part_000: always the one file
imageExportInline(w, ops, trusted, fingerprint, secret) ==
    LET g == dbImageGet(w, fingerprint, PublicOnly(ops, trusted, fingerprint, secret))
        path == ImagesPath(g.row.fingerprint, "")
        ext == IF PathExists(w.fs, path) /\ w.fs[path].kind = "file"
               THEN detectCompressionInline(w.fs[path].data).ext ELSE ""
    IN  IF g.err # "" THEN SmartError(g.err)
        ELSE SyncResponse(<< [ identifier |-> << fingerprint, ext >>, path |-> path ] >>)

-----------------------------------------------------------------------------
(* Aliases and the server config *)

\* a variant of aliasesPost that does not look the name up before the insert
aliasesPostUnchecked(w, req) ==
    LET description == IF req.description = "" THEN req.name ELSE req.description
        g == dbImageGet(w, req.target, FALSE)
        a == dbAddAlias(w, req.name, g.row.id, description)
    IN  IF req.name = "" \/ req.target = 0
        THEN [ w |-> w, resp |-> BadRequest("name and target are required") ]
        ELSE IF FALSE
        THEN [ w |-> w, resp |-> [ kind |-> "Conflict", err |-> "", body |-> << >> ] ]
        ELSE IF g.err # "" THEN [ w |-> w, resp |-> SmartError(g.err) ]
        ELSE IF a.err # "" THEN [ w |-> w, resp |-> SmartError(a.err) ]
        ELSE [ w |-> a.w, resp |-> EmptySyncResponse ]

\* aliasesPost
aliasesPost(w, req) ==
    LET description == IF req.description = "" THEN req.name ELSE req.description
        g == dbImageGet(w, req.target, FALSE)
        a == dbAddAlias(w, req.name, g.row.id, description)
    IN  IF req.name = "" \/ req.target = 0
        THEN [ w |-> w, resp |-> BadRequest("name and target are required") ]
        ELSE IF dbAliasGet(w, req.name) = ""
        THEN [ w |-> w, resp |-> [ kind |-> "Conflict", err |-> "", body |-> << >> ] ]
        ELSE IF g.err # "" THEN [ w |-> w, resp |-> SmartError(g.err) ]
        ELSE IF a.err # "" THEN [ w |-> w, resp |-> SmartError(a.err) ]
        ELSE [ w |-> a.w, resp |-> EmptySyncResponse ]

\* doAliasGet: the join of images_aliases and images on the name, of the public
\* images only for a client that is not trusted; the fingerprint is returned
\* in the field Name
doAliasGet(w, name, isTrustedClient) ==
    LET rows == { a \in w.images_aliases :
                    /\ a.name = name
                    /\ \E r \in w.images : r.id = a.image_id /\ (~isTrustedClient => r.public = 1) }
        a == CHOOSE x \in rows : TRUE
        image == CHOOSE r \in w.images : r.id = a.image_id
    IN  IF rows = {} THEN [ err |-> "sql: no rows in result set", alias |-> << >> ]
        ELSE [ err |-> "", alias |-> [ Name |-> image.fingerprint, Description |-> a.description ] ]

\* aliasGet
aliasGet(w, name, isTrustedClient) ==
    LET g == doAliasGet(w, name, isTrustedClient) IN
    IF g.err # "" THEN SmartError(g.err) ELSE SyncResponse(g.alias)

\* a variant of aliasDelete that deletes nothing
aliasDeleteNothing(w, name) == [ w |-> w, resp |-> EmptySyncResponse ]

\* aliasDelete: DELETE FROM images_aliases WHERE name=?, whose outcome is dropped
aliasDelete(w, name) ==
    [ w |-> [ w EXCEPT !.images_aliases = { a \in @ : a.name # name } ],
      resp |-> EmptySyncResponse ]

ValidServerConfigKey(key) ==
    key \in { "core.trust_password", "core.lvm_vg_name", "core.lvm_thinpool_name" }

RECURSIVE api10PutLoop(_, _, _)
\* the loop of api10Put over req.Config, in the order the map is ranged over
api10PutLoop(cfg, reqConfig, order) ==
    IF order = << >> THEN [ config |-> cfg, resp |-> EmptySyncResponse ]
    ELSE IF ~ValidServerConfigKey(Head(order))
    THEN [ config |-> cfg, resp |-> SmartError("Bad server config key") ]
    ELSE api10PutLoop([ cfg EXCEPT ![Head(order)] = reqConfig[Head(order)] ], reqConfig, Tail(order))

-----------------------------------------------------------------------------
(* The requests of the model *)

\* a gzip archive with metadata.yaml, properties { 10: 20 }
GzImage == << 31, 139, 1, 10, 20 >>
\* a bzip2 archive with metadata.yaml and no property
Bz2Image == << 66, 90, 1 >>
\* an xz archive with metadata.yaml, properties { 10: 30 }: the metadata part
MetadataTar == << 253, 55, 122, 88, 90, 0, 1, 10, 30 >>
\* a gzip archive without metadata.yaml: the rootfs part
RootfsGz == << 31, 139, 0, 7 >>
SplitImage == MultipartBody(MetadataTar, RootfsGz)
\* bytes that match no magic number
BadMagic == << 9, 9, 1 >>
EmptyFile == << >>

Bodies == { GzImage, Bz2Image, SplitImage, BadMagic, EmptyFile }

\* an upload: its Content-Type, its body, and the X-LXD-fingerprint and X-LXD-public headers
Upload(ctype, body, fingerprint, public) ==
    [ ctype |-> ctype, body |-> body, fingerprint |-> fingerprint, public |-> public ]

PostRequests ==
    { Upload("application/octet-stream", GzImage, 0, 0),
      Upload("application/octet-stream", GzImage, SHA256(GzImage), 1),
      Upload("application/octet-stream", Bz2Image, SHA256(GzImage), 0),
      Upload("multipart/form-data", SplitImage, 0, 1),
      Upload("multipart/form-data", SplitImage, SHA256(SplitImage), 0),
      Upload("multipart/form-data", GzImage, 0, 0),
      Upload("application/octet-stream", BadMagic, 0, 0),
      Upload("application/octet-stream", EmptyFile, 0, 0) }

\* the fingerprints a client asks for: those of the two images, and one of no image
Fingerprints == { SHA256(GzImage), SHA256(MetadataTar \o RootfsGz), SHA256(BadMagic) }

Secrets == { "s1", "s2" }

\* who asks for an image: a trusted client, or an untrusted one with or without a secret
AccessRequests ==
    [ trusted : { TRUE }, fingerprint : Fingerprints, secret : { "" } ]
        \cup [ trusted : { FALSE }, fingerprint : Fingerprints, secret : Secrets \cup { "" } ]

PropertyMaps == { NoProperties, [ k \in { 10, 11 } |-> k + 50 ] }

AliasNames == { "a" }

\* the creates of an alias: with and without a description, and one without a target
AliasRequests ==
    [ name : AliasNames, description : { "d", "" }, target : Fingerprints ]
        \cup [ name : AliasNames, description : { "d" }, target : { 0 } ]

ConfigRequests ==
    { [ k \in { "core.lvm_vg_name" } |-> "vg0" ],
      [ k \in { "core.lvm_vg_name" } |-> "" ],
      [ k \in { "core.lvm_vg_name", "core.bogus" } |-> "vg0" ] }

Orders(S) == { o \in [ 1..Cardinality(S) -> S ] : \A i, j \in DOMAIN o : i # j => o[i] # o[j] }

-----------------------------------------------------------------------------
(* The state machine *)

NoOperations == [ id \in {} |-> 0 ]

\* the goroutines that serve requests step by step
Procs == { 1, 2 }

\* no transaction; an open one holds the tables as its statements have left them
NoTx == [ open |-> FALSE, images |-> {}, images_properties |-> {}, nextId |-> 0 ]

\* a goroutine that serves no request; lock: it holds the mutex of the registry
Idle == [ pc |-> "idle", op |-> "", req |-> << >>, vg |-> FALSE, fp |-> 0, info |-> NoInfo,
          priv |-> [ q \in {} |-> Dir ], err |-> "", resp |-> EmptySyncResponse,
          tx |-> NoTx, pending |-> {}, row |-> NoImage, props |-> NoProperties, lock |-> FALSE ]

\* shared.ContainerState{}: no config, no profile
NoContainerState == [ Config |-> [ k \in {} |-> "" ], Profiles |-> {} ]

\* lxc copy before copyContainer is called
NoCopy ==
    [ pc |-> "idle", sourceRemote |-> "", sourceName |-> "", destRemote |-> "", destName |-> "",
      keepVolatile |-> FALSE,
      env |-> [ status |-> NoContainerState, destProfs |-> {}, addresses |-> << >> ],
      read |-> NoContainerState, status |-> NoContainerState, baseImage |-> "",
      addresses |-> << >>, err |-> "", result |-> "", log |-> << >> ]

Init ==
    /\ impl \in { "pipeline", "inline" }
    /\ BackingFs \in { "ext4", "btrfs" }
    /\ config = [ k \in { "core.lvm_vg_name", "core.lvm_thinpool_name" } |-> "" ]
    /\ images = {}
    /\ images_properties = {}
    /\ images_aliases = {}
    /\ nextId = 1
    /\ fs = [ p \in {} |-> Dir ]
    /\ lvs = {}
    /\ pools = {}
    /\ operations = NoOperations
    /\ last = [ op |-> "", req |-> << >>, resp |-> EmptySyncResponse ]
    /\ procs = [ p \in Procs |-> Idle ]
    /\ lxc = NoCopy

\* the handlers change the world, the registry and last; impl and BackingFs never change
SetShared(w) ==
    /\ config' = w.config
    /\ images' = w.images
    /\ images_properties' = w.images_properties
    /\ images_aliases' = w.images_aliases
    /\ nextId' = w.nextId
    /\ fs' = w.fs
    /\ lvs' = w.lvs
    /\ pools' = w.pools
    /\ UNCHANGED << impl, BackingFs >>

\* a handler that is served in one step, with no request in flight changed
SetWorld(w) == SetShared(w) /\ UNCHANGED << procs, lxc >>

Served(op, req, resp) == last' = [ op |-> op, req |-> req, resp |-> resp ]

imagesPost(w, req) ==
    IF impl = "pipeline" THEN imagesPostPipeline(w, req) ELSE imagesPostInline(w, req)

imageDelete(w, fingerprint) ==
    IF impl = "pipeline" THEN imageDeletePipeline(w, fingerprint) ELSE imageDeleteInline(w, fingerprint)

imageExport(w, ops, trusted, fingerprint, secret) ==
    IF impl = "pipeline" THEN imageExportPipeline(w, ops, trusted, fingerprint, secret)
    ELSE imageExportInline(w, ops, trusted, fingerprint, secret)

\* POST /images
ImagesPost ==
    \E req \in PostRequests :
        \E r \in { imagesPost(World, req) } :
        /\ nextId <= MaxImageId
        /\ SetWorld(r.w)
        /\ Served("imagesPost", req, r.resp)
        /\ UNCHANGED operations

\* DELETE /images/{fingerprint}
ImageDelete ==
    \E fingerprint \in Fingerprints :
        \E r \in { imageDelete(World, fingerprint) } :
        /\ SetWorld(r.w)
        /\ Served("imageDelete", fingerprint, r.resp)
        /\ UNCHANGED operations

\* PUT /images/{fingerprint}
ImagePut ==
    \E fingerprint \in Fingerprints, properties \in PropertyMaps :
        \E r \in { imagePut(World, fingerprint, properties) } :
        /\ SetWorld(r.w)
        /\ Served("imagePut", [ fingerprint |-> fingerprint, properties |-> properties ], r.resp)
        /\ UNCHANGED operations

\* GET /images/{fingerprint}
ImageGet ==
    \E req \in AccessRequests :
        /\ Served("imageGet", req, imageGet(World, operations, req.trusted, req.fingerprint, req.secret))
        /\ SetWorld(World)
        /\ UNCHANGED operations

\* GET /images
ImagesGet ==
    \E trusted \in BOOLEAN, recursion \in BOOLEAN :
        /\ Served("imagesGet", [ trusted |-> trusted, recursion |-> recursion ],
                  imagesGet(World, trusted, recursion))
        /\ SetWorld(World)
        /\ UNCHANGED operations

\* GET /images/{fingerprint}/export
ImageExport ==
    \E req \in AccessRequests :
        /\ Served("imageExport", req, imageExport(World, operations, req.trusted, req.fingerprint, req.secret))
        /\ SetWorld(World)
        /\ UNCHANGED operations

\* POST /images/{fingerprint}/secret
ImageSecret ==
    \E fingerprint \in Fingerprints, secret \in Secrets :
        /\ Cardinality(DOMAIN operations) < MaxOps
        \* the secret is a fresh random string: no live operation holds it
        /\ \A id \in DOMAIN operations : operations[id].Metadata["secret"] # secret
        /\ operations' = imageSecret(World, operations, fingerprint, secret).ops
        /\ Served("imageSecret", fingerprint, imageSecret(World, operations, fingerprint, secret).resp)
        /\ SetWorld(World)

\* an operation ends and leaves the registry
OperationDone ==
    \E id \in DOMAIN operations :
        /\ operations' = [ i \in DOMAIN operations \ { id } |-> operations[i] ]
        /\ Served("operationDone", id, EmptySyncResponse)
        /\ SetWorld(World)

\* POST /images/aliases
AliasesPost ==
    \E req \in AliasRequests :
        /\ SetWorld(aliasesPost(World, req).w)
        /\ Served("aliasesPost", req, aliasesPost(World, req).resp)
        /\ UNCHANGED operations

\* GET /images/aliases/{name}
AliasGet ==
    \E name \in AliasNames, trusted \in BOOLEAN :
        /\ Served("aliasGet", [ name |-> name, trusted |-> trusted ], aliasGet(World, name, trusted))
        /\ SetWorld(World)
        /\ UNCHANGED operations

\* DELETE /images/aliases/{name}
AliasDelete ==
    \E name \in AliasNames :
        /\ SetWorld(aliasDelete(World, name).w)
        /\ Served("aliasDelete", [ name |-> name ], aliasDelete(World, name).resp)
        /\ UNCHANGED operations

\* PUT / (the server config)
Api10Put ==
    \E reqConfig \in ConfigRequests :
        \E order \in Orders(DOMAIN reqConfig) :
            /\ SetWorld([ World EXCEPT !.config = api10PutLoop(config, reqConfig, order).config ])
            /\ Served("api10Put", reqConfig, api10PutLoop(config, reqConfig, order).resp)
            /\ UNCHANGED operations

Next ==
    \/ ImagesPost
    \/ ImageDelete
    \/ ImagePut
    \/ ImageGet
    \/ ImagesGet
    \/ ImageExport
    \/ ImageSecret
    \/ OperationDone
    \/ AliasesPost
    \/ AliasGet
    \/ AliasDelete
    \/ Api10Put

Spec == Init /\ [][Next]_vars

\* Spec has every request; its state space is large.  The properties below
\* are checked under two parts of it: the requests that change the store, and
\* the requests that read it.

\* the requests that change the image store
NextStore ==
    \/ ImagesPost
    \/ ImageDelete
    \/ AliasesPost
    \/ Api10Put

SpecStore == Init /\ [][NextStore]_vars

\* the requests that read the image store, under the default storage backend
NextAccess ==
    \/ ImagesPost
    \/ ImagePut
    \/ ImageGet
    \/ ImagesGet
    \/ ImageExport
    \/ ImageSecret
    \/ OperationDone

InitAccess == Init /\ BackingFs = "ext4"

SpecAccess == InitAccess /\ [][NextAccess]_vars

-----------------------------------------------------------------------------
(* The claims about the image store *)

RowsOf(rows, fingerprint) == { r \in rows : r.fingerprint = fingerprint }

\* the sidecars and the content file of a fingerprint, under <images>
ArtifactsOf(f, fingerprint) ==
    { p \in DOMAIN f : p.dir = "images" /\ p.fp = fingerprint }

\* C1: ingesting the same upload twice in sequence gives one success and then
\* one failure of kind Conflict, and exactly one image row of its fingerprint
\* exists after both requests.
C1_IdempotentRejection ==
    [][ ( /\ last.op = "imagesPost" /\ last.resp.kind = "Success"
          /\ last'.op = "imagesPost"
          /\ last'.req.ctype = last.req.ctype /\ last'.req.body = last.req.body
          /\ last'.req.fingerprint \in { 0, last.resp.body.fingerprint } )
        => ( /\ last'.resp.kind = "Conflict"
             /\ Cardinality(RowsOf(images', last.resp.body.fingerprint)) = 1 ) ]_vars

\* C2: after DELETE /images/{fp} returned success there is no property row, no
\* alias row and no image row of the image, no content file and no sidecar of
\* fp under <images>, and no logical volume named fp.
C2_CascadingDelete ==
    [][ ( last'.op = "imageDelete" /\ last'.resp.kind = "Success" )
        => \A r \in RowsOf(images, last'.req) :
               /\ RowsOf(images', last'.req) = {}
               /\ { a \in images_aliases' : a.image_id = r.id } = {}
               /\ { q \in images_properties' : q.image_id = r.id } = {}
               /\ ArtifactsOf(fs', last'.req) = {}
               /\ last'.req \notin lvs' ]_vars

\* C3: after every completed ingest or delete request, failed or not, the
\* content file <images>/F exists exactly when an image row of F exists.
C3_ArtifactIffRow ==
    \A F \in Fingerprints : PathExists(fs, ImagesPath(F, "")) <=> RowsOf(images, F) # {}

-----------------------------------------------------------------------------
(* The claims about who may read an image *)

\* the fingerprints a list response exposes: URLs, or records
Exposed(body, recursion) ==
    IF recursion THEN { info.Fingerprint : info \in body } ELSE { url[3] : url \in body }

PrivateRows(F) == { r \in RowsOf(images, F) : r.public = 0 }
PublicRows(F) == { r \in RowsOf(images, F) : r.public = 1 }

\* the live operations whose images resources name F and whose secret is s
LiveSecretOps(F, s) ==
    { id \in DOMAIN operations :
          /\ << "1.0", "images", F >> \in operations[id].Resources["images"]
          /\ operations[id].Metadata["secret"] = s }

\* C4: an untrusted list, fetch or export exposes an image only if its public
\* flag is 1 or the request carries a secret that imageValidSecret accepts for
\* its fingerprint; a private image otherwise yields NotFound.
C4_PublicVisibility ==
    /\ ( last.op \in { "imageGet", "imageExport" } /\ ~last.req.trusted )
       => LET F == last.req.fingerprint
              valid == imageValidSecret(operations, F, last.req.secret)
          IN  /\ last.resp.kind = "Success" => ( PublicRows(F) # {} \/ valid )
              /\ ( PublicRows(F) = {} /\ ~valid ) => last.resp.kind = "NotFound"
    /\ ( last.op = "imagesGet" /\ ~last.req.trusted )
       => \A F \in Exposed(last.resp.body, last.req.recursion) : PublicRows(F) # {}

\* an untrusted fetch of a stored private image, without a secret, was
\* answered NotFound
C4_Witness ==
    /\ last.op = "imageGet" /\ ~last.req.trusted /\ last.req.secret = ""
    /\ PrivateRows(last.req.fingerprint) # {}
    /\ last.resp.kind = "NotFound"

C5_Accepted ==
    \A F \in Fingerprints, s \in Secrets \cup { "" } :
        imageValidSecret(operations, F, s) => LiveSecretOps(F, s) # {}

C5_Scoped ==
    ( last'.op = "imageSecret" /\ last'.resp.kind = "Success" )
    => \A G \in Fingerprints \ { last'.req } :
           ~imageValidSecret(operations', G, last'.resp.body.secret)

C5_Ended ==
    ( last'.op = "operationDone" )
    => \A F \in Fingerprints, s \in Secrets :
           LiveSecretOps(F, s) = { last'.req } => ~imageValidSecret(operations', F, s)

\* C5: imageValidSecret(F, s) is true only if a live operation names F in its
\* images resources and has the secret s; a secret minted for F authorises no
\* other fingerprint G; it stops authorising once its operation has left the
\* registry.
C5_SecretScope == [] C5_Accepted /\ [][ C5_Scoped /\ C5_Ended ]_vars

\* an operation has ended while another, for a stored image, is still live
\* and its secret is accepted
C5_Witness ==
    /\ last.op = "operationDone"
    /\ \E F \in Fingerprints, s \in Secrets :
           /\ imageValidSecret(operations, F, s)
           /\ \E G \in Fingerprints \ { F } : RowsOf(images, G) # {} /\ ~imageValidSecret(operations, G, s)

\* the secrets that live operations hold for the stored private image F
MintedFor(F) == { s \in Secrets : LiveSecretOps(F, s) # {} }

\* an untrusted export of a stored private image for which a secret is live
GatedExport ==
    /\ last.op = "imageExport" /\ ~last.req.trusted
    /\ PrivateRows(last.req.fingerprint) # {}
    /\ MintedFor(last.req.fingerprint) # {}

\* C6 as stated: while the operation that minted S for the private image F is
\* live, an untrusted export of F with S succeeds and with any other secret
\* value returns NotFound.
C6_AnyOtherSecret ==
    GatedExport
    => \A S \in MintedFor(last.req.fingerprint) :
           /\ last.req.secret = S => last.resp.kind = "Success"
           /\ last.req.secret # S => last.resp.kind = "NotFound"

\* C6, amended: while the operation that minted S for the private image F is
\* live, an untrusted export of F with S succeeds, and with any value that is
\* the secret of no live operation on F it returns NotFound.
C6_SecretGatedExport ==
    GatedExport
    => /\ last.req.secret \in MintedFor(last.req.fingerprint) => last.resp.kind = "Success"
       /\ last.req.secret \notin MintedFor(last.req.fingerprint) => last.resp.kind = "NotFound"

\* an untrusted export of a private image succeeded with the secret minted for it
C6_Witness ==
    /\ GatedExport
    /\ last.req.secret \in MintedFor(last.req.fingerprint)
    /\ last.resp.kind = "Success"

\* C7: a successful PUT /images/{fp} with properties M followed by GET
\* /images/{fp} returns a properties map equal to M: no key of the prior set
\* survives unless it is in M.
C7_PropertyRoundTrip ==
    [][ ( /\ last.op = "imagePut" /\ last.resp.kind = "Success"
          /\ last'.op = "imageGet" /\ last'.req.trusted
          /\ last'.req.fingerprint = last.req.fingerprint )
        => ( /\ last'.resp.kind = "Success"
             /\ last'.resp.body.Properties = last.req.properties ) ]_vars

\* a GET answered with the two properties that only a PUT can have stored
C7_Witness ==
    /\ last.op = "imageGet" /\ last.resp.kind = "Success"
    /\ DOMAIN last.resp.body.Properties = { 10, 11 }

-----------------------------------------------------------------------------
(* The claims about the fingerprint and the rejected uploads *)

\* whether the handler reads the upload as a multipart form
ReadAsMultipart(req) == impl = "pipeline" /\ req.ctype = "multipart/form-data"

\* the contents of the two parts of a well-formed multipart body, in order
PartsOf(body) ==
    NextPart(body, 1).data \o NextPart(body, NextPart(body, 1).next).data

WellFormed(req) ==
    ReadAsMultipart(req)
    => /\ NextPart(req.body, 1).err = "" /\ NextPart(req.body, 1).name = "metadata"
       /\ NextPart(req.body, NextPart(req.body, 1).next).err = ""
       /\ NextPart(req.body, NextPart(req.body, 1).next).name = "rootfs"

ComputedDigest(req) ==
    IF ReadAsMultipart(req) THEN SHA256(PartsOf(req.body)) ELSE SHA256(req.body)

\* C9: a POST /images whose X-LXD-fingerprint differs from the computed digest
\* fails with HashMismatch, inserts no image row, and leaves on disk no file
\* that the request created.
C9_HashMismatch ==
    [][ ( /\ last'.op = "imagesPost" /\ WellFormed(last'.req)
          /\ last'.req.fingerprint \notin { 0, ComputedDigest(last'.req) } )
        => ( /\ last'.resp.kind = "HashMismatch"
             /\ images' = images /\ images_properties' = images_properties
             /\ fs' = fs /\ lvs' = lvs ) ]_vars

\* a multipart upload was rejected for its fingerprint while an image is stored
C9_Witness ==
    /\ last.op = "imagesPost" /\ last.resp.kind = "HashMismatch"
    /\ ReadAsMultipart(last.req)
    /\ images # {}

\* C10: a POST /images of a tarball that matches none of the recognised magic
\* signatures fails with UnsupportedCompression, inserts no image row, and
\* leaves on disk no file that the request created.
C10_UnknownMagic ==
    [][ ( /\ last'.op = "imagesPost" /\ ~ReadAsMultipart(last'.req)
          /\ last'.req.fingerprint \in { 0, ComputedDigest(last'.req) }
          /\ DetectFormat(last'.req.body) = "" )
        => ( /\ last'.resp.kind = "UnsupportedCompression"
             /\ images' = images /\ images_properties' = images_properties
             /\ fs' = fs /\ lvs' = lvs ) ]_vars

-----------------------------------------------------------------------------
(* POST /images while tar or umount fail.  A request takes fresh temporary  *)
(* names; the model has one name for each, so that no request starts while  *)
(* a build directory or a mount point of an earlier request is left.        *)

FaultUploads ==
    { Upload("application/octet-stream", GzImage, 0, 0),
      Upload("multipart/form-data", SplitImage, 0, 1) }

FaultSets == SUBSET { "untar", "umount" }

NoTempLeft == ~PathExists(fs, BuildDir) /\ ~PathExists(fs, ImportMountPoint)

ImagesPostFault ==
    \E req \in FaultUploads, faults \in FaultSets :
        \E r \in { imagesPost([ World EXCEPT !.faults = faults ], req) } :
        /\ nextId <= MaxImageId
        /\ NoTempLeft
        /\ SetWorld(r.w)
        /\ Served("imagesPostFault", [ upload |-> req, faults |-> faults ], r.resp)
        /\ UNCHANGED operations

NextFault == ImagesPostFault \/ ImageDelete \/ Api10Put

SpecFault == Init /\ [][NextFault]_vars

\* the unpack into the mounted volume was reached and failed
UnpackFailed(l) ==
    /\ l.op = "imagesPostFault"
    /\ l.resp.err \in { "exit status 2", "Error unmounting during cleanup of error",
                        "Error removing temp mount point during cleanup of error" }

\* C11: when the LVM backend is configured and the unpack into the mounted
\* logical volume fails, whether or not the umount after it succeeds, then after
\* POST /images has returned there is no LV named by the fingerprint, no .lv
\* symlink, no image row and no build directory.
C11_LvmMidUnpackFailure ==
    [][ ( /\ config["core.lvm_vg_name"] # ""
          /\ UnpackFailed(last')
          /\ RowsOf(images, ComputedDigest(last'.req.upload)) = {} )
        => LET fp == ComputedDigest(last'.req.upload) IN
           /\ fp \notin lvs'
           /\ \A q \in DOMAIN fs' : ~(q.fp = fp /\ q.name \in { ".lv", ".lvm" })
           /\ RowsOf(images', fp) = {}
           /\ ~PathExists(fs', BuildDir) ]_vars

\* the same, for the requests whose umount succeeded
C11_UmountSucceeded ==
    [][ ( /\ config["core.lvm_vg_name"] # ""
          /\ UnpackFailed(last') /\ "umount" \notin last'.req.faults
          /\ RowsOf(images, ComputedDigest(last'.req.upload)) = {} )
        => LET fp == ComputedDigest(last'.req.upload) IN
           /\ fp \notin lvs'
           /\ \A q \in DOMAIN fs' : ~(q.fp = fp /\ q.name \in { ".lv", ".lvm" })
           /\ RowsOf(images', fp) = {}
           /\ ~PathExists(fs', BuildDir) ]_vars

-----------------------------------------------------------------------------
(* POST /images served by two goroutines at once.  A goroutine has its own  *)
(* temporary names (ioutil.TempDir, ioutil.TempFile): the files under them  *)
(* are its priv; everything else is shared.  A step is the work between two *)
(* accesses to what is shared.                                              *)

Merge(f, g) == [ q \in DOMAIN f \cup DOMAIN g |-> IF q \in DOMAIN g THEN g[q] ELSE f[q] ]

\* a temporary name, or a path under the build directory
IsPrivate(q) == q.fp = 0 \/ q.dir = "lxd_build_"

PrivateOf(f) == [ q \in { r \in DOMAIN f : IsPrivate(r) } |-> f[q] ]
SharedOf(f) == [ q \in { r \in DOMAIN f : ~IsPrivate(r) } |-> f[q] ]

\* the world as goroutine p sees it
View(p) == [ World EXCEPT !.fs = Merge(fs, procs[p].priv) ]

\* goroutine p has made a step that leaves the world w and the locals rec
Stepped(p, w, rec) ==
    /\ SetShared([ w EXCEPT !.fs = SharedOf(w.fs) ])
    /\ procs' = [ procs EXCEPT ![p] = [ rec EXCEPT !.priv = PrivateOf(w.fs) ] ]
    /\ UNCHANGED << operations, last, lxc >>

\* the uploads of the goroutines
ConcUploads ==
    { Upload("application/octet-stream", GzImage, 0, 0),
      Upload("multipart/form-data", SplitImage, 0, 1) }

\* lxd/images.go: the build directory and getImgPostInfo
PipelineBegin ==
    \E p \in Procs, req \in ConcUploads :
        LET w1 == [ View(p) EXCEPT !.fs = Create(@, BuildDir, Dir) ]
            g == getImgPostInfo(w1.fs, req)
        IN  /\ impl = "pipeline" /\ procs[p].pc = "idle"
            /\ Stepped(p, [ w1 EXCEPT !.fs = g.fs ],
                       [ procs[p] EXCEPT !.pc = IF g.err # "" THEN "cleanup" ELSE "build",
                                         !.op = "imagesPost", !.req = req, !.info = g.info,
                                         !.fp = g.info.Fingerprint, !.err = g.err ])

\* buildImageFromInfo: buildOtherFs
PipelineBuild ==
    \E p \in Procs :
        LET b == buildOtherFs(View(p), procs[p].fp) IN
        /\ impl = "pipeline" /\ procs[p].pc = "build"
        /\ Stepped(p, b.w, [ procs[p] EXCEPT !.pc = IF b.err # "" THEN "cleanup" ELSE "insert",
                                             !.err = b.err ])

\* buildImageFromInfo: dbInsertImage
PipelineInsert ==
    \E p \in Procs :
        LET d == dbInsertImage(View(p), procs[p].info) IN
        /\ impl = "pipeline" /\ procs[p].pc = "insert"
        /\ Stepped(p, d.w, [ procs[p] EXCEPT !.pc = IF d.err # "" THEN "cleanup" ELSE "pull",
                                             !.err = d.err ])

\* buildImageFromInfo: pullOutImagefiles
PipelinePull ==
    \E p \in Procs :
        LET r == pullOutImagefiles(View(p), procs[p].fp) IN
        /\ impl = "pipeline" /\ procs[p].pc = "pull"
        /\ Stepped(p, r.w, [ procs[p] EXCEPT !.pc = "cleanup", !.err = r.err ])

\* imagesPost: removeImgWorkdir and the response
PipelineCleanup ==
    \E p \in Procs :
        /\ impl = "pipeline" /\ procs[p].pc = "cleanup"
        /\ Stepped(p, removeImgWorkdir(View(p)),
                   [ procs[p] EXCEPT !.pc = "done",
                                     !.resp = IF procs[p].err # "" THEN SmartError(procs[p].err)
                                              ELSE SyncResponse([ fingerprint |-> procs[p].fp ]) ])

\* part_000: the config is read, the body is copied to the temporary file and
\* hashed, the digest is compared with X-LXD-fingerprint
InlineBegin ==
    \E p \in Procs, req \in ConcUploads :
        LET vg == getServerConfigValue(config, "core.lvm_vg_name")
            w1 == [ View(p) EXCEPT !.fs = Create(@, TempImage, File(req.body)) ]
            fp == SHA256(req.body)
            c == cleanup(w1, vg.isSet, "fingerprints don't match", TempImage)
            rec == [ procs[p] EXCEPT !.op = "imagesPost", !.req = req, !.vg = vg.isSet, !.fp = fp ]
        IN  /\ impl = "inline" /\ procs[p].pc = "idle"
            /\ IF req.fingerprint # 0 /\ fp # req.fingerprint
               THEN Stepped(p, c.w, [ rec EXCEPT !.pc = "done", !.resp = c.resp ])
               ELSE Stepped(p, w1, [ rec EXCEPT !.pc = "check" ])

\* part_000: shared.PathExists(imagefname)
InlineCheck ==
    \E p \in Procs :
        LET c == cleanup(View(p), procs[p].vg, "Image already exists.", TempImage) IN
        /\ impl = "inline" /\ procs[p].pc = "check"
        /\ IF PathExists(fs, ImagesPath(procs[p].fp, ""))
           THEN Stepped(p, c.w, [ procs[p] EXCEPT !.pc = "done", !.resp = c.resp ])
           ELSE Stepped(p, View(p), [ procs[p] EXCEPT !.pc = "rename" ])

\* part_000: os.Rename(fname, imagefname)
InlineRename ==
    \E p \in Procs :
        LET mv == osRename(View(p).fs, TempImage, ImagesPath(procs[p].fp, ""))
            c == cleanup([ View(p) EXCEPT !.fs = mv.fs ], procs[p].vg, mv.err, TempImage)
        IN  /\ impl = "inline" /\ procs[p].pc = "rename"
            /\ IF mv.err # ""
               THEN Stepped(p, c.w, [ procs[p] EXCEPT !.pc = "done", !.resp = c.resp ])
               ELSE Stepped(p, [ View(p) EXCEPT !.fs = mv.fs ], [ procs[p] EXCEPT !.pc = "store" ])

\* part_000: the LV, the subvolume or the metadata
InlineStore ==
    \E p \in Procs :
        LET store == buildStoreInline(View(p), procs[p].vg, procs[p].fp, ImagesPath(procs[p].fp, "")) IN
        /\ impl = "inline" /\ procs[p].pc = "store"
        /\ Stepped(p, store.w, [ procs[p] EXCEPT !.pc = IF store.err # "" THEN "cleanup" ELSE "insert",
                                                 !.err = store.err ])

\* part_000: the INSERT of the row
InlineInsert ==
    \E p \in Procs :
        LET ins == InsertImageInline(View(p), procs[p].fp, procs[p].req.public, PropHeaders(procs[p].req)) IN
        /\ impl = "inline" /\ procs[p].pc = "insert"
        /\ IF ins.err # ""
           THEN Stepped(p, View(p), [ procs[p] EXCEPT !.pc = "cleanup", !.err = ins.err ])
           ELSE Stepped(p, ins.w, [ procs[p] EXCEPT !.pc = "done",
                                                    !.resp = SyncResponse([ fingerprint |-> procs[p].fp ]) ])

\* part_000: cleanup(err, imagefname)
InlineCleanup ==
    \E p \in Procs :
        LET c == cleanup(View(p), procs[p].vg, procs[p].err, ImagesPath(procs[p].fp, "")) IN
        /\ impl = "inline" /\ procs[p].pc = "cleanup"
        /\ Stepped(p, c.w, [ procs[p] EXCEPT !.pc = "done", !.resp = c.resp ])

\* the daemon on an empty store, with or without a volume group configured
InitConc ==
    /\ impl \in { "pipeline", "inline" }
    /\ BackingFs \in { "ext4", "btrfs" }
    /\ config \in { [ k \in { "core.lvm_vg_name", "core.lvm_thinpool_name" } |-> "" ],
                    [ k \in { "core.lvm_vg_name", "core.lvm_thinpool_name" } |->
                        IF k = "core.lvm_vg_name" THEN "vg0" ELSE "" ] }
    /\ images = {}
    /\ images_properties = {}
    /\ images_aliases = {}
    /\ nextId = 1
    /\ fs = [ p \in {} |-> Dir ]
    /\ lvs = {}
    /\ pools = {}
    /\ operations = NoOperations
    /\ last = [ op |-> "", req |-> << >>, resp |-> EmptySyncResponse ]
    /\ procs = [ p \in Procs |-> Idle ]
    /\ lxc = NoCopy

NextConc ==
    \/ PipelineBegin \/ PipelineBuild \/ PipelineInsert \/ PipelinePull \/ PipelineCleanup
    \/ InlineBegin \/ InlineCheck \/ InlineRename \/ InlineStore \/ InlineInsert \/ InlineCleanup

SpecConc == InitConc /\ [][NextConc]_vars

\* both goroutines have answered, and their uploads were byte-identical archives
BothAnswered ==
    /\ \A p \in Procs : procs[p].pc = "done"
    /\ procs[1].req = procs[2].req
    /\ procs[1].req.body = GzImage

\* the sidecar of the backend in force is there
SidecarPresent(fp) ==
    IF config["core.lvm_vg_name"] # ""
    THEN /\ fp \in lvs
         /\ \E q \in DOMAIN fs : q.fp = fp /\ q.name \in { ".lv", ".lvm" } /\ fs[q] = Symlink(fp)
    ELSE BackingFs = "btrfs" => PathExists(fs, ImagesPath(fp, ".btrfs"))

\* C12: of two concurrent POST /images with byte-identical uploads, under
\* every interleaving of their steps, exactly one succeeds and the other fails
\* with AlreadyExists (Conflict); exactly one image row results; and after both
\* have completed the content file and the sidecar of the winner are present
\* and intact.
C12_ParallelSameFingerprint ==
    BothAnswered =>
        /\ \E p \in Procs : /\ procs[p].resp.kind = "Success"
                            /\ \A o \in Procs \ { p } : procs[o].resp.kind = "Conflict"
        /\ Cardinality(RowsOf(images, SHA256(GzImage))) = 1
        /\ PathExists(fs, ImagesPath(SHA256(GzImage), ""))
        /\ fs[ImagesPath(SHA256(GzImage), "")] = File(GzImage)
        /\ SidecarPresent(SHA256(GzImage))

-----------------------------------------------------------------------------
(* The transactions of dbInsertImage and imagePut, statement by statement,  *)
(* and the queries of doImageGet, one by one.  A transaction works on its   *)
(* own copy of the tables, which txCommit makes the tables of the daemon;   *)
(* one transaction is open at a time (the write lock of the database).      *)

\* dbBegin(d.db)
dbBegin(w) ==
    [ open |-> TRUE, images |-> w.images, images_properties |-> w.images_properties,
      nextId |-> w.nextId ]

\* the world as the statements of the transaction tx see it
InTx(w, tx) ==
    [ w EXCEPT !.images = tx.images, !.images_properties = tx.images_properties,
               !.nextId = tx.nextId ]

\* the transaction after statements that have left the world w
TxOf(w) == dbBegin(w)

\* txCommit(tx)
txCommit(w, tx) == InTx(w, tx)

\* the transaction that is open, if any
OpenTx ==
    IF \E o \in Procs : procs[o].tx.open
    THEN procs[CHOOSE o \in Procs : procs[o].tx.open].tx
    ELSE NoTx

\* a variant of dbQueryScan that reads the tables of the open transaction
dbQueryScanUncommitted(w, tx) == IF tx.open THEN InTx(w, tx) ELSE w

\* dbQueryScan(d.db, ...), dbImageGet(d.db, ...): a query on d.db, outside the
\* transaction, reads what is committed
dbQueryScan(w, tx) == w

\* the fingerprints asked for, and the properties put
TxFingerprints == { SHA256(GzImage), SHA256(MetadataTar \o RootfsGz) }
TxPropertyMaps == { [ k \in { 10, 11 } |-> k + 50 ] }

\* dbInsertImage: dbBegin
InsertBegin ==
    \E p \in Procs :
        /\ procs[p].pc = "insert" /\ ~OpenTx.open
        /\ Stepped(p, View(p), [ procs[p] EXCEPT !.pc = "tx_row", !.tx = dbBegin(World) ])

\* dbInsertImage: INSERT INTO images; tx.Rollback() when it fails
InsertRow ==
    \E p \in Procs :
        LET d == dbInsertImage(InTx(World, procs[p].tx),
                               [ procs[p].info EXCEPT !.Properties = NoProperties ])
        IN  /\ procs[p].pc = "tx_row"
            /\ IF d.err # ""
               THEN Stepped(p, View(p), [ procs[p] EXCEPT !.pc = "cleanup", !.err = d.err, !.tx = NoTx ])
               ELSE Stepped(p, View(p),
                            [ procs[p] EXCEPT !.pc = "tx_props", !.tx = TxOf(d.w),
                                              !.row = [ NoImage EXCEPT !.id = procs[p].tx.nextId,
                                                            !.fingerprint = procs[p].fp ],
                                              !.pending = DOMAIN procs[p].info.Properties ])

\* dbInsertImage: one INSERT INTO images_properties of the loop
InsertProperty ==
    \E p \in Procs :
        \E k \in procs[p].pending :
            /\ procs[p].pc = "tx_props"
            /\ Stepped(p, View(p),
                       [ procs[p] EXCEPT !.pending = @ \ { k },
                             !.tx.images_properties =
                                 @ \cup { [ image_id |-> procs[p].row.id, key |-> k,
                                            value |-> procs[p].info.Properties[k] ] } ])

\* dbInsertImage: txCommit
InsertCommit ==
    \E p \in Procs :
        /\ procs[p].pc = "tx_props" /\ procs[p].pending = {}
        /\ Stepped(p, txCommit(View(p), procs[p].tx), [ procs[p] EXCEPT !.pc = "pull", !.tx = NoTx ])

\* imagePut: dbImageGet
PutBegin ==
    \E p \in Procs, fingerprint \in TxFingerprints, properties \in TxPropertyMaps :
        LET g == dbImageGet(dbQueryScan(World, OpenTx), fingerprint, FALSE) IN
        /\ procs[p].pc = "idle"
        /\ IF g.err # ""
           THEN Stepped(p, View(p), [ procs[p] EXCEPT !.pc = "done", !.op = "imagePut",
                                                      !.fp = fingerprint, !.resp = SmartError(g.err) ])
           ELSE Stepped(p, View(p), [ procs[p] EXCEPT !.pc = "put", !.op = "imagePut",
                                                      !.fp = fingerprint, !.row = g.row,
                                                      !.props = properties ])

\* imagePut: dbBegin, DELETE FROM images_properties
PutDelete ==
    \E p \in Procs :
        /\ procs[p].pc = "put" /\ ~OpenTx.open
        /\ Stepped(p, View(p),
                   [ procs[p] EXCEPT !.pc = "put_props",
                                     !.tx = TxOf(DeletePropertiesOfImage(World, procs[p].row.id)),
                                     !.pending = DOMAIN procs[p].props ])

\* imagePut: one INSERT INTO images_properties of the loop
PutProperty ==
    \E p \in Procs :
        \E k \in procs[p].pending :
            /\ procs[p].pc = "put_props"
            /\ Stepped(p, View(p),
                       [ procs[p] EXCEPT !.pending = @ \ { k },
                             !.tx.images_properties =
                                 @ \cup { [ image_id |-> procs[p].row.id, key |-> k,
                                            value |-> procs[p].props[k] ] } ])

\* imagePut: txCommit
PutCommit ==
    \E p \in Procs :
        /\ procs[p].pc = "put_props" /\ procs[p].pending = {}
        /\ Stepped(p, txCommit(View(p), procs[p].tx),
                   [ procs[p] EXCEPT !.pc = "done", !.tx = NoTx, !.resp = EmptySyncResponse ])

\* doImageGet: dbImageGet
GetRow ==
    \E p \in Procs, fingerprint \in TxFingerprints :
        LET g == dbImageGet(dbQueryScan(World, OpenTx), fingerprint, FALSE) IN
        /\ procs[p].pc = "idle"
        /\ IF g.err # ""
           THEN Stepped(p, View(p), [ procs[p] EXCEPT !.pc = "done", !.op = "imageGet",
                                                      !.fp = fingerprint, !.resp = SmartError(g.err) ])
           ELSE Stepped(p, View(p), [ procs[p] EXCEPT !.pc = "get", !.op = "imageGet",
                                                      !.fp = fingerprint, !.row = g.row ])

\* doImageGet: the queries on images_properties and images_aliases
GetProperties ==
    \E p \in Procs :
        LET s == dbQueryScan(World, OpenTx) IN
        /\ procs[p].pc = "get"
        /\ Stepped(p, View(p),
                   [ procs[p] EXCEPT !.pc = "done",
                         !.resp = SyncResponse([ Fingerprint |-> procs[p].row.fingerprint,
                                                 Public |-> procs[p].row.public,
                                                 Properties |-> PropertiesOfImage(s, procs[p].row.id),
                                                 Aliases |-> AliasesOfImage(s, procs[p].row.id) ]) ])

\* the response is sent and the goroutine is free again
Return ==
    \E p \in Procs :
        /\ procs[p].pc = "done"
        /\ Stepped(p, View(p), Idle)

\* lxd/images.go on the directory backend
InitTx == Init /\ impl = "pipeline" /\ BackingFs = "ext4"

NextTx ==
    \/ PipelineBegin \/ PipelineBuild
    \/ InsertBegin \/ InsertRow \/ InsertProperty \/ InsertCommit
    \/ PipelinePull \/ PipelineCleanup
    \/ PutBegin \/ PutDelete \/ PutProperty \/ PutCommit
    \/ GetRow \/ GetProperties
    \/ Return

SpecTx == InitTx /\ [][NextTx]_vars

\* the property sets that an ingestion or a PUT writes
WrittenSets ==
    { getImgPostInfo([ q \in { BuildDir } |-> Dir ], req).info.Properties : req \in ConcUploads }
        \cup TxPropertyMaps

\* C13: under every interleaving of an ingestion or a property replacement
\* with fetches of the same fingerprint, a fetch that has answered saw no image
\* row, or the row with the whole property set written by one ingestion or one
\* replacement: never a row with a part of its properties.
C13_NoHalfBuiltImage ==
    \A p \in Procs :
        (procs[p].op = "imageGet" /\ procs[p].pc = "done")
        => \/ procs[p].resp.kind = "NotFound"
           \/ /\ procs[p].resp.kind = "Success"
              /\ procs[p].resp.body.Fingerprint = procs[p].fp
              /\ procs[p].resp.body.Properties \in WrittenSets

\* a fetch has answered with the row while a transaction on the same image is
\* open with statements still to come
C13_Witness ==
    \E p \in Procs, o \in Procs :
        /\ procs[p].op = "imageGet" /\ procs[p].pc = "done" /\ procs[p].resp.kind = "Success"
        /\ procs[o].tx.open /\ procs[o].pending # {} /\ procs[o].row.fingerprint = procs[p].fp
        /\ procs[o].op = "imagePut"

-----------------------------------------------------------------------------
(* The claims about the sidecars *)

\* the unpacked sidecars of fingerprint in the images directory, by name
SidecarsOf(f, fingerprint) ==
    { q.name : q \in { r \in DOMAIN f : /\ r.dir = "images" /\ r.fp = fingerprint
                                        /\ r.name \in { ".btrfs", ".lv", ".lvm" } } }

\* ingest and delete requests, on a daemon with or without a volume group
NextBackend == ImagesPost \/ ImageDelete

SpecBackend == InitConc /\ [][NextBackend]_vars

\* the sidecars of an image ingested under the config cfg on the filesystem
\* backing: the LV symlink (named .lvm by part_000) when a volume group is
\* configured, else the subvolume on btrfs, else none
SidecarsOfBackend(cfg, backing) ==
    IF cfg["core.lvm_vg_name"] # "" THEN { IF impl = "pipeline" THEN ".lv" ELSE ".lvm" }
    ELSE IF backing = "btrfs" THEN { ".btrfs" }
    ELSE {}

\* this step is the ingestion of fingerprint
Ingested(fingerprint) ==
    /\ last'.op = "imagesPost" /\ last'.resp.kind = "Success"
    /\ last'.resp.body.fingerprint = fingerprint
    /\ RowsOf(images, fingerprint) = {}

\* C14: in every state reached by ingest and delete requests, each stored image
\* has at most one unpacked sidecar, and the one it has is of the backend in
\* force at its ingestion (none for the directory backend, F.btrfs for btrfs,
\* F.lv for LVM, which takes precedence): an ingestion leaves the sidecar of
\* its backend and no other, and a stored image gets no sidecar afterwards.
C14_SidecarExclusivity ==
    [][ \A fingerprint \in Fingerprints :
          RowsOf(images', fingerprint) # {}
          => IF Ingested(fingerprint)
             THEN SidecarsOf(fs', fingerprint) = SidecarsOfBackend(config, BackingFs)
             ELSE SidecarsOf(fs', fingerprint) \subseteq SidecarsOf(fs, fingerprint) ]_vars

\* a request was an ingestion on btrfs with a volume group configured, and the
\* image has its sidecar
C14_Witness ==
    /\ last.op = "imagesPost" /\ last.resp.kind = "Success"
    /\ config["core.lvm_vg_name"] # "" /\ BackingFs = "btrfs"
    /\ SidecarsOf(fs, last.resp.body.fingerprint) # {}
    /\ \E fingerprint \in Fingerprints \ { last.resp.body.fingerprint } :
           RowsOf(images, fingerprint) # {}

-----------------------------------------------------------------------------
(* lxc copy: copyContainer of lxc/copy.go.  A step is one request to a      *)
(* daemon and the code up to the next request; lxc.log lists the requests   *)
(* sent, with their outcome.  The source container (lxc.env.status), the    *)
(* profiles of the destination, the addresses of the source and the outcome *)
(* of each request are chosen by the environment.                           *)

\* strings.HasPrefix(k, prefix)
HasPrefix(k, prefix) == Len(k) >= Len(prefix) /\ SubSeq(k, 1, Len(prefix)) = prefix

\* shared.IsSnapshot(name): the name holds a "/"
IsSnapshot(name) == \E i \in 1..Len(name) : SubSeq(name, i, i) = "/"

\* status.Config["volatile.base_image"]: "" when the key is absent
ConfigValue(cfg, k) == IF k \in DOMAIN cfg THEN cfg[k] ELSE ""

\* a variant of the read of the base image that reads the config that is sent
BaseImageAfterStrip(before, after) == ConfigValue(after, "volatile.base_image")

\* baseImage = status.Config["volatile.base_image"], read before the keys are deleted
BaseImage(before, after) == ConfigValue(before, "volatile.base_image")

\* the loop that deletes the keys of prefix "volatile", unless keepVolatile
StripVolatile(cfg, keepVolatile) ==
    IF keepVolatile THEN cfg
    ELSE [ k \in { x \in DOMAIN cfg : ~HasPrefix(x, "volatile") } |-> cfg[k] ]

\* a variant of IsSubset that finds every profile
IsSubsetOfAny(a, b) == TRUE

\* sourceProfs.IsSubset(destProfs)
IsSubset(a, b) == a \subseteq b

\* a variant of the loop over the addresses that ends at the first failure
NoOtherAddress(addresses) == << >>

\* continue: the addresses still to try
OtherAddresses(addresses) == Tail(addresses)

\* the resources [remote:]name, as config.ParseRemoteAndContainer splits them
Resource(remote, name) == [ remote |-> remote, name |-> name ]

SourceResources ==
    { Resource("local", "c1"), Resource("local", "c1/snap0"), Resource("r2", "c1"), Resource("local", "") }
DestResources ==
    { Resource("local", "c1"), Resource("local", ""), Resource("local", "c2"), Resource("r2", "c1") }

\* the state of the source container
ContainerStates ==
    { [ Config |-> [ k \in { "volatile.base_image", "volatile.eth0.hwaddr", "user.volatile" } |->
                        IF k = "volatile.base_image" THEN "img1" ELSE "x" ],
        Profiles |-> { "default", "web" } ],
      [ Config |-> [ k \in { "limits.cpu" } |-> "2" ], Profiles |-> { "default" } ] }

\* the profiles of the destination, and the addresses of the source
ProfileLists == { { "default" }, { "default", "web" } }
AddressLists == { << >>, << "a1" >>, << "a1", "a2" >> }

\* a request of the log
Sent(to, req, addr, cfg, profiles, baseImage, ok) ==
    [ to |-> to, req |-> req, addr |-> addr, config |-> cfg, profiles |-> profiles,
      baseImage |-> baseImage, ok |-> ok ]

\* a request without a container config
SentPlain(to, req, ok) == Sent(to, req, "", NoContainerState.Config, {}, "", ok)

\* copyContainer returns err (nil is "")
Returned(c, err) == [ c EXCEPT !.pc = "done", !.result = err ]

\* the daemon takes no step
DaemonUnchanged ==
    UNCHANGED << impl, BackingFs, config, images, images_properties, images_aliases,
                 nextId, fs, lvs, pools, operations, last, procs >>

\* after the status: a local copy if the remotes are the same, else a migration
Branch(c) ==
    IF c.sourceRemote = c.destRemote
    THEN IF c.sourceName = c.destName THEN Returned(c, "can't copy to the same container name")
         ELSE [ c EXCEPT !.pc = "LocalCopy" ]
    ELSE [ c EXCEPT !.pc = "ListProfiles" ]

\* copyContainer, up to its first request
CopyContainer ==
    \E source \in SourceResources, dest \in DestResources, keepVolatile \in BOOLEAN,
       status \in ContainerStates, destProfs \in ProfileLists, addresses \in AddressLists :
        LET c == [ NoCopy EXCEPT !.sourceRemote = source.remote, !.sourceName = source.name,
                                 !.destRemote = dest.remote,
                                 !.destName = IF dest.name = "" THEN source.name ELSE dest.name,
                                 !.keepVolatile = keepVolatile,
                                 !.env = [ status |-> status, destProfs |-> destProfs,
                                           addresses |-> addresses ] ]
        IN  /\ lxc.pc = "idle"
            /\ lxc' = IF source.name = "" THEN Returned(c, "you must specify a source container name")
                      ELSE IF ~IsSnapshot(source.name) THEN [ c EXCEPT !.pc = "ContainerStatus" ]
                      ELSE Branch(c)
            /\ DaemonUnchanged

\* source.ContainerStatus(sourceName), the base image, the volatile keys
ContainerStatus ==
    \E ok \in BOOLEAN :
        LET c == [ lxc EXCEPT !.log = Append(@, SentPlain("source", "ContainerStatus", ok)) ]
            stripped == StripVolatile(lxc.env.status.Config, lxc.keepVolatile)
        IN  /\ lxc.pc = "ContainerStatus"
            /\ lxc' = IF ~ok THEN Returned(c, "ContainerStatus failed")
                      ELSE Branch([ c EXCEPT !.read = lxc.env.status,
                                             !.status = [ lxc.env.status EXCEPT !.Config = stripped ],
                                             !.baseImage = BaseImage(lxc.env.status.Config, stripped) ])
            /\ DaemonUnchanged

\* source.LocalCopy(sourceName, destName, status.Config, status.Profiles)
LocalCopy ==
    \E ok \in BOOLEAN :
        LET c == [ lxc EXCEPT !.log = Append(@, Sent("source", "LocalCopy", "", lxc.status.Config,
                                                     lxc.status.Profiles, "", ok)) ]
        IN  /\ lxc.pc = "LocalCopy"
            /\ lxc' = IF ~ok THEN Returned(c, "LocalCopy failed") ELSE [ c EXCEPT !.pc = "WaitLocalCopy" ]
            /\ DaemonUnchanged

\* source.WaitForSuccess(cp.Operation)
WaitLocalCopy ==
    \E ok \in BOOLEAN :
        LET c == [ lxc EXCEPT !.log = Append(@, SentPlain("source", "WaitForSuccess", ok)) ] IN
        /\ lxc.pc = "WaitLocalCopy"
        /\ lxc' = Returned(c, IF ok THEN "" ELSE "WaitForSuccess failed")
        /\ DaemonUnchanged

\* dest.ListProfiles() and the comparison of the profiles
ListProfiles ==
    \E ok \in BOOLEAN :
        LET c == [ lxc EXCEPT !.log = Append(@, SentPlain("dest", "ListProfiles", ok)) ] IN
        /\ lxc.pc = "ListProfiles"
        /\ lxc' = IF ~ok THEN Returned(c, "ListProfiles failed")
                  ELSE IF ~IsSubset(lxc.status.Profiles, lxc.env.destProfs)
                  THEN Returned(c, "not all the profiles from the source exist on the target")
                  ELSE [ c EXCEPT !.pc = "GetMigrationSourceWS" ]
        /\ DaemonUnchanged

\* source.GetMigrationSourceWS(sourceName) and the secrets of its response
GetMigrationSourceWS ==
    \E ok \in BOOLEAN :
        LET c == [ lxc EXCEPT !.log = Append(@, SentPlain("source", "GetMigrationSourceWS", ok)) ] IN
        /\ lxc.pc = "GetMigrationSourceWS"
        /\ lxc' = IF ~ok THEN Returned(c, "GetMigrationSourceWS failed") ELSE [ c EXCEPT !.pc = "Addresses" ]
        /\ DaemonUnchanged

\* source.Addresses(); with no address the loop is not entered and err, nil, is returned
Addresses ==
    \E ok \in BOOLEAN :
        LET c == [ lxc EXCEPT !.log = Append(@, SentPlain("source", "Addresses", ok)) ] IN
        /\ lxc.pc = "Addresses"
        /\ lxc' = IF ~ok THEN Returned(c, "Addresses failed")
                  ELSE IF lxc.env.addresses = << >> THEN Returned(c, "")
                  ELSE [ c EXCEPT !.pc = "MigrateFrom", !.addresses = lxc.env.addresses ]
        /\ DaemonUnchanged

\* the end of an iteration that failed with err: the next address, or return err
Continue(c, err) ==
    IF OtherAddresses(c.addresses) = << >> THEN Returned([ c EXCEPT !.err = err ], err)
    ELSE [ c EXCEPT !.pc = "MigrateFrom", !.err = err, !.addresses = OtherAddresses(@) ]

\* dest.MigrateFrom(destName, sourceWSUrl, secrets, status.Config, status.Profiles, baseImage)
MigrateFrom ==
    \E ok \in BOOLEAN :
        LET addr == Head(lxc.addresses)
            c == [ lxc EXCEPT !.log = Append(@, Sent("dest", "MigrateFrom", addr, lxc.status.Config,
                                                     lxc.status.Profiles, lxc.baseImage, ok)) ]
        IN  /\ lxc.pc = "MigrateFrom"
            /\ lxc' = IF ~ok THEN Continue(c, "MigrateFrom failed: " \o addr)
                      ELSE [ c EXCEPT !.pc = "WaitMigrateFrom" ]
            /\ DaemonUnchanged

\* dest.WaitForSuccess(migration.Operation)
WaitMigrateFrom ==
    \E ok \in BOOLEAN :
        LET addr == Head(lxc.addresses)
            c == [ lxc EXCEPT !.log = Append(@, Sent("dest", "WaitForSuccess", addr,
                                                     NoContainerState.Config, {}, "", ok)) ]
        IN  /\ lxc.pc = "WaitMigrateFrom"
            /\ lxc' = IF ~ok THEN Continue(c, "WaitForSuccess failed: " \o addr)
                      ELSE Returned(c, "")
            /\ DaemonUnchanged

InitCopy == Init /\ impl = "pipeline" /\ BackingFs = "ext4"

NextCopy ==
    \/ CopyContainer \/ ContainerStatus \/ LocalCopy \/ WaitLocalCopy
    \/ ListProfiles \/ GetMigrationSourceWS \/ Addresses \/ MigrateFrom \/ WaitMigrateFrom

SpecCopy == InitCopy /\ [][NextCopy]_vars

-----------------------------------------------------------------------------
(* The claims about lxc copy *)

\* the positions in the log of the requests named req
Requests(req) == { i \in 1..Len(lxc.log) : lxc.log[i].req = req }

\* the migration-from requests sent, in order
MigrationsSent == SelectSeq(lxc.log, LAMBDA e : e.req = "MigrateFrom")

FailureOf(e) ==
    (IF e.req = "MigrateFrom" THEN "MigrateFrom failed: " ELSE "WaitForSuccess failed: ") \o e.addr

\* C16: in a cross-remote copy the advertised addresses of the source are tried
\* in order; a failure of the migration-from request or of the wait for its
\* operation moves on to the next address; the first address on which both
\* succeed makes copyContainer return success, and no further address is
\* tried; if every address fails, copyContainer returns the error of the last
\* address tried.
C16_AddressFailover ==
    LET m == MigrationsSent
        n == Len(lxc.log)
    IN  /\ Len(m) <= Len(lxc.env.addresses)
        /\ \A i \in 1..Len(m) : m[i].addr = lxc.env.addresses[i]
        /\ \A i \in 1..n :
              (lxc.log[i].req = "WaitForSuccess" /\ lxc.log[i].to = "dest")
              => /\ i > 1 /\ lxc.log[i - 1].req = "MigrateFrom" /\ lxc.log[i - 1].ok
                 /\ lxc.log[i - 1].addr = lxc.log[i].addr
                 /\ lxc.log[i].ok => (i = n /\ lxc.pc = "done" /\ lxc.result = "")
        /\ \A i \in 1..n :
              (lxc.log[i].req = "MigrateFrom" /\ lxc.log[i].ok)
              => (i = n /\ lxc.pc = "WaitMigrateFrom") \/ (i < n /\ lxc.log[i + 1].req = "WaitForSuccess")
        /\ (lxc.pc = "done" /\ m # << >> /\ lxc.result # "")
           => /\ Len(m) = Len(lxc.env.addresses)
              /\ ~lxc.log[n].ok
              /\ lxc.result = FailureOf(lxc.log[n])
        /\ (lxc.pc = "done" /\ m # << >> /\ lxc.result = "")
           => lxc.log[n].req = "WaitForSuccess" /\ lxc.log[n].ok

\* the copy has succeeded on the second address after the wait failed on the first
C16_Witness ==
    /\ lxc.pc = "done" /\ lxc.result = ""
    /\ Len(MigrationsSent) = 2
    /\ \E i \in Requests("WaitForSuccess") : ~lxc.log[i].ok

\* C17: a copy of remote:c1 to the same remote and the same name returns
\* IllegalCopy, and no request has been sent to any daemon (no container-status
\* read, no local-copy operation) before the rejection.
C17_SameNameReject ==
    ( /\ lxc.pc = "done" /\ lxc.sourceRemote = lxc.destRemote
      /\ lxc.sourceName = lxc.destName /\ lxc.sourceName # "" )
    => /\ lxc.result = "can't copy to the same container name"
       /\ lxc.log = << >>

\* the keys of the container states of the model whose name begins with volatile
VolatileKeys == { "volatile.base_image", "volatile.eth0.hwaddr" }

\* C18: in every local-copy or migration-from request that copyContainer sends
\* with keepVolatile false, the config sent has no key whose name begins with
\* volatile, and the base image sent with a migration-from request is the
\* volatile.base_image of the source as read before the keys were deleted; with
\* keepVolatile true the config is sent as it was read.
C18_VolatileStripping ==
    \A i \in Requests("LocalCopy") \cup Requests("MigrateFrom") :
        IF lxc.keepVolatile THEN lxc.log[i].config = lxc.read.Config
        ELSE /\ DOMAIN lxc.log[i].config \cap VolatileKeys = {}
             /\ lxc.log[i].req = "MigrateFrom"
                => lxc.log[i].baseImage = ConfigValue(lxc.read.Config, "volatile.base_image")

\* a migration-from request was sent without the volatile keys of a container
\* that has a base image
C18_Witness ==
    /\ ~lxc.keepVolatile
    /\ "volatile.base_image" \in DOMAIN lxc.read.Config
    /\ \E i \in Requests("MigrateFrom") :
          lxc.log[i].baseImage = "img1" /\ "user.volatile" \in DOMAIN lxc.log[i].config
    /\ Requests("LocalCopy") = {}

-----------------------------------------------------------------------------
(* The alias service *)

\* the requests that create, read and delete aliases, and those that store
\* and delete the images they point to
NextAlias ==
    \/ ImagesPost
    \/ ImageDelete
    \/ AliasesPost
    \/ AliasGet
    \/ AliasDelete

SpecAlias == InitAccess /\ [][NextAlias]_vars

\* the create of last has a name and a target, and its name is the name of a
\* row of aliases
Collides(l, aliases) ==
    /\ l.op = "aliasesPost"
    /\ l.req.name # ""
    /\ l.req.target # 0
    /\ \E a \in aliases : a.name = l.req.name

\* C19: a create of an alias (with a name and a target, whether the target is
\* a stored image or not) whose name is the name of an existing alias is
\* answered Conflict, and it leaves the rows of images_aliases, so the target
\* image and the description of the existing alias, as they were
C19_AliasCollision ==
    [][ Collides(last', images_aliases)
            => /\ last'.resp.kind = "Conflict"
               /\ images_aliases' = images_aliases ]_vars

\* a create answered Conflict while the alias of its name points to another
\* image and has another description than the ones of the request
C19_Witness ==
    /\ Collides(last, images_aliases)
    /\ last.resp.kind = "Conflict"
    /\ \E a \in images_aliases :
        /\ a.name = last.req.name
        /\ a.description # last.req.description
        /\ \E r \in images : r.id = a.image_id /\ r.fingerprint # last.req.target

\* the description an alias is created with
DescriptionOf(req) == IF req.description = "" THEN req.name ELSE req.description

\* C20: after a create of an alias that succeeded, the GET of its name by a
\* trusted client returns the fingerprint of the target and the description of
\* the request, which is the name when the request has none; after the DELETE
\* of a name, the GET of the name is answered NotFound and every create of the
\* name with a stored target succeeds; a create (with a name and a target) of
\* a name that exists is answered Conflict
C20_AliasLifecycle ==
    [][ /\ (last'.op = "aliasesPost" /\ last'.resp = EmptySyncResponse)
            => aliasGet(World', last'.req.name, TRUE)
                 = SyncResponse([ Name |-> last'.req.target,
                                  Description |-> DescriptionOf(last'.req) ])
        /\ last'.op = "aliasDelete"
            => /\ aliasGet(World', last'.req.name, TRUE).kind = "NotFound"
               /\ \A req \in AliasRequests :
                    (req.name = last'.req.name /\ \E r \in images' : r.fingerprint = req.target)
                        => aliasesPost(World', req).resp = EmptySyncResponse
        /\ Collides(last', images_aliases) => last'.resp.kind = "Conflict" ]_vars

\* an alias created without a description, read back with its name as the
\* description
C20_Witness ==
    /\ last.op = "aliasesPost"
    /\ last.resp = EmptySyncResponse
    /\ last.req.description = ""
    /\ aliasGet(World, last.req.name, TRUE).body.Description = last.req.name
    /\ aliasGet(World, last.req.name, TRUE).body.Name = last.req.target

-----------------------------------------------------------------------------
(* The shape of an export *)

\* the upload is a multipart body with a metadata part and a rootfs part
SplitUpload(req) == req.ctype = "multipart/form-data" /\ req.body = SplitImage

\* the upload is one tarball, sent as the body
SingleUpload(req) == req.ctype = "application/octet-stream"

\* the identifiers of the files an export of fingerprint returns to a trusted
\* client in the state after the step
ExportedAfter(fingerprint) ==
    LET r == imageExport(World', operations', TRUE, fingerprint, 0) IN
    IF r.kind = "Success" THEN [ i \in 1..Len(r.body) |-> r.body[i].identifier ]
    ELSE << r.kind >>

\* C21: after an accepted ingestion of a split multipart upload <images>/F and
\* <images>/F.rootfs both exist and the export of F returns two files, with the
\* identifiers metadata and rootfs; after an accepted ingestion of a single
\* tarball there is no <images>/F.rootfs and the export of F returns one file
C21_ExportShape ==
    [][ (last'.op = "imagesPost" /\ last'.resp.kind = "Success")
        => LET F == last'.resp.body.fingerprint IN
           /\ SplitUpload(last'.req)
                => /\ PathExists(fs', ImagesPath(F, ""))
                   /\ PathExists(fs', ImagesPath(F, ".rootfs"))
                   /\ ExportedAfter(F) = << << "metadata" >>, << "rootfs" >> >>
           /\ SingleUpload(last'.req)
                => /\ ~PathExists(fs', ImagesPath(F, ".rootfs"))
                   /\ Len(ExportedAfter(F)) = 1
                   /\ ExportedAfter(F)[1] \notin { << "metadata" >>, << "rootfs" >>,
                                                   << "NotFound" >>, << "Internal" >> } ]_vars

\* a split multipart upload was accepted, its two files are stored, and a
\* single tarball is stored beside it
C21_Witness ==
    /\ last.op = "imagesPost" /\ last.resp.kind = "Success"
    /\ SplitUpload(last.req)
    /\ PathExists(fs, ImagesPath(last.resp.body.fingerprint, ".rootfs"))
    /\ \E fingerprint \in Fingerprints \ { last.resp.body.fingerprint } :
           /\ RowsOf(images, fingerprint) # {}
           /\ ~PathExists(fs, ImagesPath(fingerprint, ".rootfs"))

-----------------------------------------------------------------------------
(* The properties of an upload with X-LXD-properties headers *)

\* the header lists of a request: none, a pair that overrides a property of
\* metadata.yaml, a key twice in one header, a key in two headers
HeaderLists ==
    { << >>,
      << << 10, 61, 40 >> >>,
      << << 11, 61, 40, 38, 11, 61, 50 >> >>,
      << << 11, 61, 40 >>, << 11, 61, 50 >> >> }

\* the uploads with headers: a tarball whose metadata.yaml has a property, and
\* one whose metadata.yaml has none
HeaderUploads ==
    { [ ctype |-> "application/octet-stream", body |-> body, fingerprint |-> 0,
        public |-> public, propHeaders |-> propHeaders ] :
        body \in { GzImage, Bz2Image }, public \in { 0, 1 }, propHeaders \in HeaderLists }

\* POST /images with X-LXD-properties headers
ImagesPostHeaders ==
    \E req \in HeaderUploads :
        \E r \in { imagesPost(World, req) } :
        /\ nextId <= MaxImageId
        /\ SetWorld(r.w)
        /\ Served("imagesPostHeaders", req, r.resp)
        /\ UNCHANGED operations

NextHeaders == ImagesPostHeaders \/ ImageDelete

SpecHeaders == InitAccess /\ [][NextHeaders]_vars

RECURSIVE ExpectedProperties(_, _)
\* the properties overridden by the pairs of the headers, the last value seen
\* for a key being kept
ExpectedProperties(properties, propHeaders) ==
    IF propHeaders = << >> THEN properties
    ELSE ExpectedProperties(LastValues(properties, Head(propHeaders)), Tail(propHeaders))

\* the properties of metadata.yaml of a tarball
MetadataProperties(body) ==
    IF impl = "pipeline" THEN getImageMetadata(body).Properties
    ELSE getImageMetadataInline(body).Properties

\* C22: an ingestion of a tarball with X-LXD-properties headers is not refused
\* for its headers, and after it the property rows of the image are those of
\* the properties of metadata.yaml overridden by the pairs of the headers, the
\* last value of a key that occurs more than once being the one stored
C22_PropertyMergePrecedence ==
    [][ /\ (last'.op = "imagesPostHeaders" /\ nextId' = nextId)
            => last'.resp.kind = "Conflict"
        /\ (last'.op = "imagesPostHeaders" /\ nextId' # nextId)
            => { p \in images_properties' : p.image_id = nextId }
                 = PropertyRows(nextId, ExpectedProperties(MetadataProperties(last'.req.body),
                                                           last'.req.propHeaders)) ]_vars

-----------------------------------------------------------------------------
(* The config values of the daemon: Test_config_value_set_empty_removes_val *)
(* of lxd/api10.go, step by step.  The variable config holds the rows of   *)
(* the config table, a key that is not set having no row; last.req is the  *)
(* key and the value of the test and its position, last.resp what it read. *)

\* a variant of ConfigValueSet that stores the empty value
ConfigValueSetStored(cfg, key, value) ==
    [ k \in DOMAIN cfg \cup { key } |-> IF k = key THEN value ELSE cfg[k] ]

\* d.ConfigValueSet(key, value): an empty value removes the key
ConfigValueSet(cfg, key, value) ==
    IF value = "" THEN [ k \in DOMAIN cfg \ { key } |-> cfg[k] ]
    ELSE [ k \in DOMAIN cfg \cup { key } |-> IF k = key THEN value ELSE cfg[k] ]

\* d.ConfigValueGet(key): the empty string for a key that is not set
ConfigValueGet(cfg, key) == IF key \in DOMAIN cfg THEN cfg[key] ELSE ""

\* d.ConfigValuesGet()
ConfigValuesGet(cfg) == cfg

ConfigKeys == { "storage.lvm_vg_name", "storage.lvm_thinpool_name", "core.trust_password" }

ConfigValues == { "foo", "bar" }

ConfigTestName == "Test_config_value_set_empty_removes_val"

ConfigTestAt(pc) == last.op = ConfigTestName /\ last.req.pc = pc

ConfigTestStep(pc, config1, resp) ==
    /\ config' = config1
    /\ last' = [ last EXCEPT !.req.pc = pc, !.resp = resp ]
    /\ UNCHANGED << impl, BackingFs, images, images_properties, images_aliases, nextId, fs,
                    lvs, pools, operations, procs, lxc >>

\* the test starts: d.ConfigValueSet("storage.lvm_vg_name", "foo")
ConfigTestSet ==
    \E key \in ConfigKeys, value \in ConfigValues :
        /\ last.op = ""
        /\ config' = ConfigValueSet(config, key, value)
        /\ last' = [ op |-> ConfigTestName, req |-> [ key |-> key, value |-> value, pc |-> "set" ],
                     resp |-> [ val1 |-> "", val2 |-> "", present |-> FALSE ] ]
        /\ UNCHANGED << impl, BackingFs, images, images_properties, images_aliases, nextId, fs,
                        lvs, pools, operations, procs, lxc >>

\* val, err := d.ConfigValueGet("storage.lvm_vg_name")
ConfigTestGet ==
    /\ ConfigTestAt("set")
    /\ ConfigTestStep("get", config, [ last.resp EXCEPT !.val1 = ConfigValueGet(config, last.req.key) ])

\* err = d.ConfigValueSet("storage.lvm_vg_name", "")
ConfigTestUnset ==
    /\ ConfigTestAt("get")
    /\ ConfigTestStep("unset", ConfigValueSet(config, last.req.key, ""), last.resp)

\* val, err = d.ConfigValueGet("storage.lvm_vg_name")
ConfigTestGetAgain ==
    /\ ConfigTestAt("unset")
    /\ ConfigTestStep("get again", config, [ last.resp EXCEPT !.val2 = ConfigValueGet(config, last.req.key) ])

\* valMap, err := d.ConfigValuesGet(); _, present := valMap["storage.lvm_vg_name"]
ConfigTestValues ==
    /\ ConfigTestAt("get again")
    /\ ConfigTestStep("done", config,
                      [ last.resp EXCEPT !.present = last.req.key \in DOMAIN ConfigValuesGet(config) ])

\* another client of the daemon sets or removes another key while the test runs
ConfigSetOther ==
    \E key \in ConfigKeys, value \in ConfigValues \cup { "" } :
        /\ last.op = ConfigTestName /\ last.req.pc # "done"
        /\ key # last.req.key
        /\ ConfigValueSet(config, key, value) # config
        /\ ConfigTestStep(last.req.pc, ConfigValueSet(config, key, value), last.resp)

\* the daemon starts with any config
InitConfig ==
    /\ impl = "pipeline"
    /\ BackingFs = "ext4"
    /\ \E keys \in SUBSET ConfigKeys : config \in [ keys -> ConfigValues ]
    /\ images = {}
    /\ images_properties = {}
    /\ images_aliases = {}
    /\ nextId = 1
    /\ fs = [ p \in {} |-> Dir ]
    /\ lvs = {}
    /\ pools = {}
    /\ operations = NoOperations
    /\ last = [ op |-> "", req |-> << >>, resp |-> EmptySyncResponse ]
    /\ procs = [ p \in Procs |-> Idle ]
    /\ lxc = NoCopy

NextConfig ==
    \/ ConfigTestSet
    \/ ConfigTestGet
    \/ ConfigTestUnset
    \/ ConfigTestGetAgain
    \/ ConfigTestValues
    \/ ConfigSetOther

SpecConfig == InitConfig /\ [][NextConfig]_vars

-----------------------------------------------------------------------------
(* POST /images step by step, one request after the other: the steps of the *)
(* two goroutines, with the second request sent after the first has been    *)
(* answered.                                                                *)

\* the goroutine that steps is the only one with a request in flight
OneAtATime ==
    \A p \in Procs :
        procs'[p] # procs[p] => \A o \in Procs \ { p } : procs[o].pc \in { "idle", "done" }

NextSeq ==
    \/ PipelineBegin /\ OneAtATime
    \/ PipelineBuild /\ OneAtATime
    \/ PipelineInsert /\ OneAtATime
    \/ PipelinePull /\ OneAtATime
    \/ PipelineCleanup /\ OneAtATime
    \/ InlineBegin /\ OneAtATime
    \/ InlineCheck /\ OneAtATime
    \/ InlineRename /\ OneAtATime
    \/ InlineStore /\ OneAtATime
    \/ InlineInsert /\ OneAtATime
    \/ InlineCleanup /\ OneAtATime

SpecSeq == InitConc /\ [][NextSeq]_vars

\* goroutine p makes the step that builds the sidecar: buildOtherFs of
\* lxd/images.go, the store of part_000
BuildsSidecar(p) ==
    /\ procs[p].pc \in { "build", "store" }
    /\ procs'[p].pc # procs[p].pc

\* C24: within one ingestion the already-present check for the fingerprint is
\* made after the X-LXD-fingerprint comparison and before any sidecar work (LV
\* creation, mkfs, mount, subvolume creation, unpack): an ingestion of a
\* fingerprint that is stored does not reach the step that builds the sidecar,
\* and creates no volume, pool, subvolume or symlink.
C24_DuplicateCheckOrdering ==
    [][ \A p \in Procs :
          RowsOf(images, procs[p].fp) # {}
          => /\ ~BuildsSidecar(p)
             /\ procs'[p] # procs[p]
                => /\ lvs' \subseteq lvs /\ pools' \subseteq pools
                   /\ \A q \in DOMAIN procs'[p].priv \ DOMAIN procs[p].priv :
                        procs'[p].priv[q].kind = "file" ]_vars

\* goroutine p is in the middle of an ingestion
InFlight(p) == procs[p].pc \notin { "idle", "done" }

\* C25: the image row is the last effect of an ingestion: in every intermediate
\* state of an ingestion in which the image row of its fingerprint F is visible,
\* the content file <images>/F and the sidecar of F are at their final
\* location.
C25_RowIsLastEffect ==
    \A p \in Procs :
        ( InFlight(p) /\ RowsOf(images, procs[p].fp) # {} )
        => /\ PathExists(fs, ImagesPath(procs[p].fp, ""))
           /\ SidecarPresent(procs[p].fp)

-----------------------------------------------------------------------------
(* POST /images while one step of the ingestion fails *)

\* the steps of an ingestion after the upload was hashed
FaultSteps ==
    { "lvcreate", "symlink", "mkfs", "mount", "untar", "umount", "subvolume", "insert",
      "rename rootfs", "rename", "rename sidecar" }

ImagesPostFailingStep ==
    \E req \in FaultUploads, step \in FaultSteps :
        \E r \in { imagesPost([ World EXCEPT !.faults = { step } ], req) } :
        /\ nextId <= MaxImageId
        /\ NoTempLeft
        /\ SetWorld(r.w)
        /\ Served("imagesPostFailingStep", [ upload |-> req, faults |-> { step } ], r.resp)
        /\ UNCHANGED operations

NextCleanup == ImagesPostFailingStep \/ ImageDelete

SpecCleanup == InitConc /\ [][NextCleanup]_vars

\* what is left of an ingestion of fingerprint in f: the content file and the
\* .rootfs under <images>, the .lv symlinks, the subvolumes
LeftOf(f, fingerprint) ==
    { q \in DOMAIN f : \/ q.dir = "images" /\ q.fp = fingerprint /\ q.name \in { "", ".rootfs" }
                       \/ q.name \in { ".lv", ".lvm" }
                       \/ f[q].kind = "subvol" }

\* C26: for a failure injected at any single step of an ingestion after the
\* upload was hashed, after POST /images has returned an error nothing created
\* by that request remains: no LV, no subvolume, no .lv symlink, no file under
\* <images> named F or F.rootfs, and no image row.
C26_FullCleanup ==
    [][ ( last'.op = "imagesPostFailingStep" /\ last'.resp.kind # "Success" )
        => /\ lvs' \subseteq lvs
           /\ LeftOf(fs', ComputedDigest(last'.req.upload)) \subseteq DOMAIN fs
           /\ images' \subseteq images ]_vars

\* the calls of the cleanup in the request of this step
CleanupCalls ==
    imagesPost([ World EXCEPT !.faults = last'.req.faults ], last'.req.upload).w.log

\* C27: on every failure path of an ingestion, the removal of a partial logical
\* volume is attempted only when that volume is not mounted, and a partial
\* btrfs subvolume is deleted before the removal of its parent build directory
\* is attempted.
C27_CleanupOrdering ==
    [][ ( last'.op = "imagesPostFailingStep" /\ last'.resp.kind # "Success" )
        => \A i \in 1..Len(CleanupCalls) : ~CleanupCalls[i].busy ]_vars

\* the second half alone: the parent directory is removed with no subvolume in it
C27_SubvolumeBeforeDirectory ==
    [][ ( last'.op = "imagesPostFailingStep" /\ last'.resp.kind # "Success" )
        => \A i \in 1..Len(CleanupCalls) :
             CleanupCalls[i].call = "os.RemoveAll" => ~CleanupCalls[i].busy ]_vars

\* C28: after POST /images has returned, on success and on every failure path,
\* the build directory of the upload no longer exists and the temporary LVM
\* mount point is neither mounted nor present.
C28_ScopedResourcesReleased ==
    last.op = "imagesPostFailingStep"
    => /\ ~PathExists(fs, BuildDir)
       /\ ~PathExists(fs, TempLVMountPoint) /\ ~PathExists(fs, ImportMountPoint)
       /\ \A q \in DOMAIN fs : fs[q].kind # "mount"

\* everything of the stored image of fingerprint: its rows and properties, its
\* files, symlinks and subvolumes under <images>, its logical volume
StoredImage(w, fingerprint) ==
    [ rows |-> RowsOf(w.images, fingerprint),
      properties |-> { r \in w.images_properties :
                         \E i \in RowsOf(w.images, fingerprint) : r.image_id = i.id },
      files |-> [ q \in ArtifactsOf(w.fs, fingerprint) |-> w.fs[q] ],
      lv |-> fingerprint \in w.lvs ]

\* the image of fingerprint is stored: its row, its sidecar, and its content
\* file or, in its place, its logical volume
IsStored(fingerprint) ==
    /\ RowsOf(images, fingerprint) # {}
    /\ SidecarPresent(fingerprint)
    /\ PathExists(fs, ImagesPath(fingerprint, "")) \/ fingerprint \in lvs

\* C29: a failed ingestion never damages a stored image: if the fingerprint F is
\* stored and a later ingestion of the same or of another upload fails at any
\* step, the row, the content file, the .rootfs, the sidecar, the symlink and
\* the logical volume of F are as they were before the failed request.
C29_FailedIngestionKeepsStored ==
    [][ ( last'.op = "imagesPostFailingStep" /\ last'.resp.kind # "Success" )
        => \A fingerprint \in Fingerprints :
             IsStored(fingerprint)
             => StoredImage(World', fingerprint) = StoredImage(World, fingerprint) ]_vars

-----------------------------------------------------------------------------
(* DELETE /images/{fingerprint} while one step of it fails *)

\* the steps of imageDelete on the storage, all of them before the DELETEs
DeleteSteps == { "remove", "remove rootfs", "lvremove", "remove symlink", "subvolume delete" }

ImageDeleteFailingStep ==
    \E fingerprint \in Fingerprints, step \in DeleteSteps :
        \E r \in { imageDelete([ World EXCEPT !.faults = { step } ], fingerprint) } :
        /\ SetWorld(r.w)
        /\ Served("imageDeleteFailingStep", [ fingerprint |-> fingerprint, step |-> step ], r.resp)
        /\ UNCHANGED operations

NextDelete == ImagesPost \/ ImageDeleteFailingStep

SpecDelete == InitConc /\ [][NextDelete]_vars

\* the step of the DELETE of fingerprint that is to fail is made
Reached(step, fingerprint) ==
    /\ RowsOf(images, fingerprint) # {}
    /\ CASE step = "remove" -> impl = "pipeline" \/ PathExists(fs, ImagesPath(fingerprint, ""))
         [] step = "remove rootfs" -> impl = "pipeline" /\ PathExists(fs, ImagesPath(fingerprint, ".rootfs"))
         [] step = "lvremove" -> config["core.lvm_vg_name"] # ""
         [] step = "remove symlink" -> config["core.lvm_vg_name"] # "" /\ fingerprint \in lvs
         [] step = "subvolume delete" -> config["core.lvm_vg_name"] = "" /\ BackingFs = "btrfs"

\* C30: in DELETE /images/{fp}, any storage error that occurs before the
\* database delete (removing the content file, the .rootfs, the LV, the symlink
\* or the subvolume) makes the request fail, and the database delete is not
\* executed.
C30_DeleteErrorSemantics ==
    [][ ( /\ last'.op = "imageDeleteFailingStep"
          /\ Reached(last'.req.step, last'.req.fingerprint) )
        => /\ last'.resp.kind # "Success"
           /\ images' = images
           /\ images_properties' = images_properties
           /\ images_aliases' = images_aliases ]_vars

\* the same, for the steps on the logical volume and its symlink
C30_VolumeErrorsAreFatal ==
    [][ ( /\ last'.op = "imageDeleteFailingStep"
          /\ last'.req.step \in { "lvremove", "remove symlink" }
          /\ Reached(last'.req.step, last'.req.fingerprint) )
        => /\ last'.resp.kind # "Success"
           /\ images' = images
           /\ images_properties' = images_properties
           /\ images_aliases' = images_aliases ]_vars

\* C31: a failed delete changes nothing: whenever DELETE /images/{fp} returns an
\* error, the image row, its property and alias rows, its content file and its
\* sidecars are all still present as before the request.
C31_FailedDeleteChangesNothing ==
    [][ ( last'.op = "imageDeleteFailingStep" /\ last'.resp.kind # "Success" )
        => /\ StoredImage(World', last'.req.fingerprint) = StoredImage(World, last'.req.fingerprint)
           /\ images_aliases' = images_aliases ]_vars

\* the same, for the requests that find no row
C31_NotFoundChangesNothing ==
    [][ ( last'.op = "imageDeleteFailingStep" /\ last'.resp.kind = "NotFound" )
        => /\ StoredImage(World', last'.req.fingerprint) = StoredImage(World, last'.req.fingerprint)
           /\ images_aliases' = images_aliases ]_vars

\* a migration-from request was accepted by the destination and the wait on its
\* operation reported success
MigrationSucceeded ==
    \E i \in Requests("WaitForSuccess") :
        /\ lxc.log[i].to = "dest" /\ lxc.log[i].ok
        /\ i > 1 /\ lxc.log[i - 1].req = "MigrateFrom" /\ lxc.log[i - 1].ok
        /\ lxc.log[i - 1].addr = lxc.log[i].addr
        /\ \E k \in 1..Len(lxc.env.addresses) : lxc.env.addresses[k] = lxc.log[i].addr

\* C32: a cross-remote copyContainer returns success only if, for at least one
\* advertised address of the source, a migration-from request was accepted by
\* the destination and the wait on its operation reported success; with an
\* empty address list it does not return success.
C32_CopySucceedsAfterMigration ==
    ( lxc.pc = "done" /\ lxc.result = "" /\ lxc.sourceRemote # lxc.destRemote )
    => MigrationSucceeded

\* the same, when the source advertises an address
C32_WithAnAddress ==
    ( /\ lxc.pc = "done" /\ lxc.result = "" /\ lxc.sourceRemote # lxc.destRemote
      /\ lxc.env.addresses # << >> )
    => MigrationSucceeded

-----------------------------------------------------------------------------
(* POST /images/aliases served by two goroutines at once: a step is a query *)
(* or a statement on the database.                                          *)

ConcAliasRequests ==
    [ name : { "a", "b" }, description : { "d", "" },
      target : { SHA256(GzImage), SHA256(BadMagic) } ]

\* aliasesPost: the body is decoded and checked
AliasesPostBegin ==
    \E p \in Procs, req \in ConcAliasRequests :
        /\ procs[p].pc = "idle"
        /\ Stepped(p, View(p), [ procs[p] EXCEPT !.pc = "aliasGet", !.op = "aliasesPost", !.req = req ])

\* aliasesPost: dbAliasGet, to see if the alias name already exists
AliasesPostCheck ==
    \E p \in Procs :
        /\ procs[p].pc = "aliasGet"
        /\ Stepped(p, View(p),
                   IF dbAliasGet(View(p), procs[p].req.name) = ""
                   THEN [ procs[p] EXCEPT !.pc = "done",
                                          !.resp = [ kind |-> "Conflict", err |-> "", body |-> << >> ] ]
                   ELSE [ procs[p] EXCEPT !.pc = "imageGet" ])

\* aliasesPost: dbImageGet of the target
AliasesPostTarget ==
    \E p \in Procs :
        /\ procs[p].pc = "imageGet"
        /\ \E g \in { dbImageGet(View(p), procs[p].req.target, FALSE) } :
           Stepped(p, View(p),
                   IF g.err # ""
                   THEN [ procs[p] EXCEPT !.pc = "done", !.resp = SmartError(g.err) ]
                   ELSE [ procs[p] EXCEPT !.pc = "addAlias", !.row = g.row ])

\* aliasesPost: dbAddAlias and the response
AliasesPostAdd ==
    \E p \in Procs :
        /\ procs[p].pc = "addAlias"
        /\ \E a \in { dbAddAlias(View(p), procs[p].req.name, procs[p].row.id,
                              IF procs[p].req.description = "" THEN procs[p].req.name
                              ELSE procs[p].req.description) } :
           Stepped(p, a.w, [ procs[p] EXCEPT !.pc = "done",
                                             !.resp = IF a.err # "" THEN SmartError(a.err)
                                                      ELSE EmptySyncResponse ])

\* the store before any request
EmptyWorld(backing) ==
    [ BackingFs |-> backing,
      config |-> [ k \in { "core.lvm_vg_name", "core.lvm_thinpool_name" } |-> "" ],
      images |-> {}, images_properties |-> {}, images_aliases |-> {}, nextId |-> 1,
      fs |-> [ p \in {} |-> Dir ], lvs |-> {}, pools |-> {}, faults |-> {}, log |-> << >> ]

\* the daemon after the ingestion of one image on an empty store
InitAliasConc ==
    \E r \in { imagesPostPipeline(EmptyWorld("ext4"),
                                  Upload("application/octet-stream", GzImage, 0, 1)).w } :
        /\ impl = "pipeline"
        /\ BackingFs = r.BackingFs
        /\ config = r.config
        /\ images = r.images
        /\ images_properties = r.images_properties
        /\ images_aliases = {}
        /\ nextId = r.nextId
        /\ fs = r.fs
        /\ lvs = r.lvs
        /\ pools = r.pools
        /\ operations = NoOperations
        /\ last = [ op |-> "", req |-> << >>, resp |-> EmptySyncResponse ]
        /\ procs = [ p \in Procs |-> Idle ]
        /\ lxc = NoCopy

NextAliasConc == AliasesPostBegin \/ AliasesPostCheck \/ AliasesPostTarget \/ AliasesPostAdd

SpecAliasConc == InitAliasConc /\ [][NextAliasConc]_vars

\* C33: in every reachable state, including after any interleaving of
\* concurrent POST /images/aliases requests with the same name, at most one
\* alias row carries a given name, and at most one of those concurrent requests
\* reports success.
C33_AliasNameUniqueness ==
    /\ \A a, b \in images_aliases : a.name = b.name => a = b
    /\ \A p, o \in Procs :
         ( /\ p # o /\ procs[p].pc = "done" /\ procs[o].pc = "done"
           /\ procs[p].req.name = procs[o].req.name
           /\ procs[p].resp.kind = "Success" )
         => procs[o].resp.kind # "Success"

\* two requests with the same name have both passed the check of the name, and
\* both have been answered
C33_Witness ==
    /\ \A p \in Procs : procs[p].pc = "done" /\ procs[p].op = "aliasesPost"
    /\ procs[1].req.name = procs[2].req.name
    /\ procs[1].req.description # procs[2].req.description
    /\ procs[1].resp.kind = "Success"
    /\ procs[2].resp.err = "UNIQUE constraint failed: images_aliases.name"

-----------------------------------------------------------------------------
(* Images read back with their aliases *)

NextAliasGet ==
    \/ ImagePut
    \/ ImageDelete
    \/ AliasesPost
    \/ AliasDelete
    \/ ImageGet
    \/ ImagesGet

SpecAliasGet == InitAliasConc /\ [][NextAliasGet]_vars

\* the alias rows of the image of fingerprint, as entries of its record
StoredAliases(fingerprint) ==
    { [ Name |-> a.name, Description |-> a.description ] :
        a \in { x \in images_aliases : \E r \in RowsOf(images, fingerprint) : x.image_id = r.id } }

\* C34: for an image with aliases attached, GET /images/{fp} and the recursive
\* list return one entry for each alias row of that image, each with the stored
\* name and the stored description of the alias.
C34_AliasesListedFaithfully ==
    /\ ( last.op = "imageGet" /\ last.resp.kind = "Success" )
       => last.resp.body.Aliases = StoredAliases(last.req.fingerprint)
    /\ ( last.op = "imagesGet" /\ last.req.recursion )
       => \A info \in last.resp.body : info.Aliases = StoredAliases(info.Fingerprint)

\* the same, for the names alone
C34_AliasNamesListed ==
    ( last.op = "imageGet" /\ last.resp.kind = "Success" )
    => { a.Name : a \in last.resp.body.Aliases }
         = { a.Name : a \in StoredAliases(last.req.fingerprint) }

-----------------------------------------------------------------------------
(* detectCompression over files of chosen leading bytes, lengths and bytes   *)
(* at 257                                                                    *)

HeaderLen == 263

FirstBytes == { 66, 31, 253, 0, 93, 224, 225, 255 }
SecondBytes == { 90, 139, 55, 0 }
MiddleBytes == { << 122, 88, 90 >>, << 122, 88, 0 >> }
SixthBytes == { 0, 1 }
UstarBytes == { << 117, 115, 116, 97, 114 >>, << 0, 0, 0, 0, 0 >> }
FileLengths == { 0, 2, 5, 6, 262, 263, 264 }

\* the file of length len that has the given bytes at [0..6) and at [257..262), zero elsewhere
SniffFile(b0, b1, mid, b5, at257, len) ==
    [ k \in 1..len |->
        CASE k = 1 -> b0
          [] k = 2 -> b1
          [] k \in 3..5 -> mid[k - 2]
          [] k = 6 -> b5
          [] k \in 258..262 -> at257[k - 257]
          [] OTHER -> 0 ]

SniffFiles ==
    { SniffFile(b0, b1, mid, b5, at257, len) :
        b0 \in FirstBytes, b1 \in SecondBytes, mid \in MiddleBytes, b5 \in SixthBytes,
        at257 \in UstarBytes, len \in FileLengths }

\* detectCompression(fname) on a file of the daemon
DetectCompression ==
    \E file \in SniffFiles :
        /\ last.op = ""
        /\ last' = [ op |-> "detectCompression", req |-> [ body |-> file ],
                     resp |-> IF impl = "pipeline" THEN detectCompression(file)
                              ELSE detectCompressionInline(file) ]
        /\ UNCHANGED << impl, BackingFs, config, images, images_properties, images_aliases,
                        nextId, fs, lvs, pools, operations, procs, lxc >>

NextSniff == DetectCompression

SpecSniff == Init /\ [][NextSniff]_vars

\* bytes [from..to) of a file, counted from 0
BytesAt(file, from, to) == SubSeq(file, from + 1, to)

\* the table of magic signatures, its rows in their order
TableFormat(file) ==
    CASE BytesAt(file, 0, 2) = << 66, 90 >> -> "bz2"
      [] BytesAt(file, 0, 2) = << 31, 139 >> -> "gzip"
      [] BytesAt(file, 0, 6) = << 253, 55, 122, 88, 90, 0 >> -> "xz"
      [] file[1] \in 0..224 /\ BytesAt(file, 1, 6) = << 55, 122, 88, 90, 0 >> -> "lzma"
      [] BytesAt(file, 257, 262) = << 117, 115, 116, 97, 114 >> -> "tar"
      [] OTHER -> ""

Sniffed == last.op = "detectCompression"

\* C35: on a header of 263 bytes detectCompression answers bzip2 for 42 5A at
\* [0..2), gzip for 1F 8B, xz only for FD 37 7A 58 5A 00 at [0..6), lzma only
\* for a first byte in [0x00..0xE0] followed by 37 7A 58 5A 00, tar for ustar
\* at [257..262), and "Unsupported compression." for every other header, the
\* rows tried in this order.
C35_CompressionClassification ==
    ( Sniffed /\ Len(last.req.body) >= HeaderLen )
    => /\ last.resp.format = TableFormat(last.req.body)
       /\ last.resp.ext = Extension(TableFormat(last.req.body))
       /\ last.resp.err = ( IF TableFormat(last.req.body) = "" THEN "Unsupported compression." ELSE "" )

\* the same for the headers that do not carry 7zXZ at [1..5)
C35_OutsideXzAndLzma ==
    ( Sniffed /\ Len(last.req.body) >= HeaderLen /\ BytesAt(last.req.body, 1, 5) # << 55, 122, 88, 90 >> )
    => /\ last.resp.format = TableFormat(last.req.body)
       /\ last.resp.err = ( IF TableFormat(last.req.body) = "" THEN "Unsupported compression." ELSE "" )

-----------------------------------------------------------------------------
(* The thin pool of the volume group *)

\* this step is an ingestion that allocated a logical volume
AllocatedLV ==
    /\ last'.op = "imagesPost"
    /\ config["core.lvm_vg_name"] # ""
    /\ lvs' \ lvs # {}

\* C37: the first ingestion under LVM with no thin pool configured creates a
\* thin pool and stores its name in core.lvm_thinpool_name, and the volume of
\* the image is allocated with that pool in place; an ingestion that finds the
\* name configured creates no pool and leaves the name as it is.
C37_ThinPoolBootstrap ==
    [][ AllocatedLV
        => /\ config'["core.lvm_thinpool_name"] # ""
           /\ config'["core.lvm_thinpool_name"] \in pools'
           /\ IF config["core.lvm_thinpool_name"] = ""
              THEN pools' = pools \cup { config'["core.lvm_thinpool_name"] } /\ pools' # pools
              ELSE pools' = pools /\ config' = config ]_vars

\* the same for the imagesPost of unnamed/part_000
C37_BootstrapInline ==
    [][ ( AllocatedLV /\ impl = "inline" )
        => /\ config'["core.lvm_thinpool_name"] # ""
           /\ config'["core.lvm_thinpool_name"] \in pools'
           /\ IF config["core.lvm_thinpool_name"] = ""
              THEN pools' = pools \cup { config'["core.lvm_thinpool_name"] } /\ pools' # pools
              ELSE pools' = pools /\ config' = config ]_vars

-----------------------------------------------------------------------------
(* imageValidSecret statement by statement, under the mutex of the registry *)

\* operations of the shapes the loop tells apart: no resources, resources of
\* containers only, an image resource that Sscanf does not read, no secret in
\* the metadata, and the operations of imageSecret
OperationShapes ==
    { [ Resources |-> NoProperties, Metadata |-> [ k \in { "secret" } |-> "s1" ] ],
      [ Resources |-> [ k \in { "containers" } |-> { << "1.0", "containers", "c1" >> } ],
        Metadata |-> [ k \in { "secret" } |-> "s1" ] ],
      [ Resources |-> [ k \in { "images" } |-> { << "1.0" >> } ],
        Metadata |-> [ k \in { "secret" } |-> "s1" ] ],
      [ Resources |-> [ k \in { "images" } |-> { << "1.0", "images", SHA256(GzImage) >> } ],
        Metadata |-> NoProperties ],
      SecretOperation(SHA256(GzImage), "s1"),
      SecretOperation(SHA256(GzImage), "s2"),
      SecretOperation(SHA256(BadMagic), "s1") }

Registries == UNION { [ 1..n -> OperationShapes ] : n \in 0..MaxOps }

SecretRequests == [ fingerprint : { SHA256(GzImage) }, secret : Secrets ]

LockUnchanged ==
    UNCHANGED << impl, BackingFs, config, images, images_properties, images_aliases,
                 nextId, fs, lvs, pools, operations, lxc >>

\* a handler calls imageValidSecret(fingerprint, secret)
ValidSecretCall ==
    \E p \in Procs, req \in SecretRequests :
        /\ procs[p].pc = "idle"
        /\ procs' = [ procs EXCEPT ![p] = [ @ EXCEPT !.pc = "Lock", !.op = "imageValidSecret",
                                                      !.req = req ] ]
        /\ UNCHANGED last
        /\ LockUnchanged

\* lock.Lock(): waits while the mutex is held
ValidSecretLock ==
    \E p \in Procs :
        /\ procs[p].pc = "Lock" /\ procs[p].op = "imageValidSecret"
        /\ \A q \in Procs : ~procs[q].lock
        /\ procs' = [ procs EXCEPT ![p] = [ @ EXCEPT !.pc = "range", !.lock = TRUE,
                                                      !.pending = DOMAIN operations ] ]
        /\ UNCHANGED last
        /\ LockUnchanged

\* the body of the loop without the lock.Unlock() before return true
RangeOperationLocked(rec, op, id) ==
    IF imageValidSecret([ i \in { id } |-> op ], rec.req.fingerprint, rec.req.secret)
    THEN [ rec EXCEPT !.pc = "done", !.pending = {},
                      !.resp = [ kind |-> "Success", err |-> "", body |-> << TRUE >> ] ]
    ELSE [ rec EXCEPT !.pending = @ \ { id } ]

\* the body of the loop for the operation id, met while pending are still to
\* come: continue, or lock.Unlock() and return true
RangeOperation(rec, op, id) ==
    IF imageValidSecret([ i \in { id } |-> op ], rec.req.fingerprint, rec.req.secret)
    THEN [ rec EXCEPT !.pc = "done", !.lock = FALSE, !.pending = {},
                      !.resp = [ kind |-> "Success", err |-> "", body |-> << TRUE >> ] ]
    ELSE [ rec EXCEPT !.pending = @ \ { id } ]

\* for _, op := range operations, in the order the map gives; after the loop
\* lock.Unlock() and return false
RangeOperations(rec, ops, id) ==
    IF rec.pending = {}
    THEN [ rec EXCEPT !.pc = "done", !.lock = FALSE,
                      !.resp = [ kind |-> "Success", err |-> "", body |-> << FALSE >> ] ]
    ELSE RangeOperation(rec, ops[id], id)

ValidSecretRange ==
    \E p \in Procs :
        /\ procs[p].pc = "range" /\ procs[p].op = "imageValidSecret"
        /\ \E id \in IF procs[p].pending = {} THEN { 0 } ELSE procs[p].pending :
               procs' = [ procs EXCEPT ![p] = RangeOperations(@, operations, id) ]
        /\ UNCHANGED last
        /\ LockUnchanged

\* the caller has the answer; the goroutine keeps what it holds
ValidSecretReturn ==
    \E p \in Procs :
        /\ procs[p].pc = "done" /\ procs[p].op = "imageValidSecret"
        /\ last' = [ op |-> "imageValidSecret", req |-> procs[p].req, resp |-> procs[p].resp ]
        /\ procs' = [ procs EXCEPT ![p] = [ Idle EXCEPT !.lock = procs[p].lock ] ]
        /\ LockUnchanged

\* the daemon with operations of all kinds in its registry
InitLock ==
    /\ impl = "pipeline"
    /\ BackingFs = "ext4"
    /\ config = [ k \in { "core.lvm_vg_name", "core.lvm_thinpool_name" } |-> "" ]
    /\ images = {}
    /\ images_properties = {}
    /\ images_aliases = {}
    /\ nextId = 1
    /\ fs = [ p \in {} |-> Dir ]
    /\ lvs = {}
    /\ pools = {}
    /\ operations \in Registries
    /\ last = [ op |-> "", req |-> << >>, resp |-> EmptySyncResponse ]
    /\ procs = [ p \in Procs |-> Idle ]
    /\ lxc = NoCopy

NextLock ==
    \/ ValidSecretCall
    \/ ValidSecretLock
    \/ ValidSecretRange
    \/ ValidSecretReturn

SpecLock == InitLock /\ [][NextLock]_vars

\* the goroutines wait for the mutex in turn, and a goroutine that can step does
SpecLockFair ==
    /\ SpecLock
    /\ \A p \in Procs :
          /\ SF_vars(ValidSecretLock /\ procs[p].pc = "Lock" /\ procs'[p].pc = "range")
          /\ WF_vars(ValidSecretRange /\ procs[p].pc = "range"
                        /\ ( procs'[p].pc = "done" \/ procs'[p].pending # procs[p].pending ))

Holders == { p \in Procs : procs[p].lock }

\* C38: imageValidSecret holds the mutex of the registry while it ranges over
\* the operations, and holds it no more once it has returned, whichever way it
\* returned: between two validations the mutex is free, and it is never held
\* by two goroutines.
C38_RegistryLockDiscipline ==
    /\ Cardinality(Holders) <= 1
    /\ \A p \in Procs :
          /\ procs[p].pc = "range" => procs[p].lock
          /\ procs[p].pc \in { "idle", "Lock", "done" } => ~procs[p].lock

\* a validation that waits for the mutex gets it and returns
C38_NoValidationWaitsForEver ==
    \A p \in Procs : ( procs[p].pc = "Lock" ) ~> ( procs[p].pc = "done" )

\* what the statements return is what imageValidSecret is in one piece
C38_SameAnswer ==
    last.op = "imageValidSecret"
    => last.resp.body = << imageValidSecret(operations, last.req.fingerprint, last.req.secret) >>

\* a validation has returned true from inside the loop, past an operation with
\* no image resource, and the next one holds the mutex
C38_Witness ==
    /\ last.op = "imageValidSecret" /\ last.resp.body = << TRUE >>
    /\ \E id \in DOMAIN operations : "images" \notin DOMAIN operations[id].Resources
    /\ \E p \in Procs : procs[p].pc = "range" /\ procs[p].lock

-----------------------------------------------------------------------------
(* PUT / with the keys of the request in any order of the map *)

PutKeys == { "core.lvm_vg_name", "core.lvm_thinpool_name", "core.bogus" }

\* the bodies {"config": {...}} with one key or more, each value a string
PutRequests == UNION { [ keys -> { "vg0", "vg1" } ] : keys \in SUBSET PutKeys \ { {} } }

\* PUT / (the server config) with any of these bodies
Api10PutAny ==
    \E reqConfig \in PutRequests :
        \E order \in Orders(DOMAIN reqConfig) :
            \E r \in { api10PutLoop(config, reqConfig, order) } :
            /\ SetWorld([ World EXCEPT !.config = r.config ])
            /\ Served("api10Put", reqConfig, r.resp)
            /\ UNCHANGED operations

NextPut == Api10PutAny

SpecPut == Init /\ [][NextPut]_vars

\* this step is a PUT / answered BadRequest for a key that is no server config key
RejectedPut ==
    /\ last'.op = "api10Put"
    /\ last'.resp.kind = "BadRequest"
    /\ \E key \in DOMAIN last'.req : ~ValidServerConfigKey(key)

\* C39: a PUT / that is rejected with BadRequest because a key of the request
\* is no valid server config key applies no key of the request: the server
\* config after it is the server config before it.
C39_PutAllOrNothing ==
    [][ RejectedPut => config' = config ]_vars

\* a PUT / with no invalid key is answered with success and applies every key
C39_ValidKeysApplied ==
    [][ ( last'.op = "api10Put" /\ \A key \in DOMAIN last'.req : ValidServerConfigKey(key) )
        => /\ last'.resp.kind = "Success"
           /\ \A key \in DOMAIN last'.req : config'[key] = last'.req[key] ]_vars

\* a PUT / with an invalid key is answered BadRequest, whatever else it holds
C39_InvalidKeyRejected ==
    [][ ( last'.op = "api10Put" /\ \E key \in DOMAIN last'.req : ~ValidServerConfigKey(key) )
        => last'.resp.kind = "BadRequest" ]_vars

=============================================================================
